---- MODULE Spec2Model ----
(***************************************************************************)
(* Job execution state machine and progress streams of the media           *)
(* processor: InMemoryJobService (job table, emitProgress, processJobAsync,*)
(* the compress handlers with their download stream and ffmpeg child       *)
(* process listeners) and JobController.getJobProgressSSE (observer        *)
(* connections, heartbeat, detach handling); the job status endpoint; the  *)
(* video encoding selector (VideoProcessor.tryVideoEncoding, processVideo);*)
(* the scene graph compiler (BaseProcessor filter builders and the worker  *)
(* layer loops); and the geometry helpers (clamp, clampInt, clampFloat,    *)
(* toPixels).                                                              *)
(***************************************************************************)
EXTENDS Integers, Sequences, FiniteSets, TLC

\* ------------------------------------------------------------------ bounds
MaxJobs == 1      \* jobs submitted in one run
MaxConns == 1     \* SSE requests made in one run
MaxObservers == 2 \* SSE requests made in one run of the fan-out scenario
MaxChunks == 1    \* 'data' events of one download stream
MaxLines == 1     \* stdout/stderr 'data' events of one child process
MaxBeats == 1     \* heartbeat ticks of one connection
MaxIds == 2       \* ids in one job status request
MaxInvocations == 4  \* ffmpeg invocations observed in one encoding run
MaxStickers == 2  \* stickers of one scene
MaxTexts == 2     \* text overlays of one scene
Scale == 2        \* resolution of the modelled numbers: a finite number is k / Scale
MaxTextLen == 2   \* characters of an escaped text

JobIds == 1..MaxJobs

\* The job data classes: the two with a processor and any other subclass.
JobKinds == {"CompressMediaReqJobData", "CompressImageReqJobData", "OtherJobData"}
jobProcessorMap == {"CompressMediaReqJobData", "CompressImageReqJobData"}

\* Exit codes a child process reports: success, failure, killed by a signal.
ExitCodes == {"0", "1", "null"}
\* Lines a child process prints (after trim).
StdoutLines == {"", "progress=continue"}
StderrLines == {"frame= 10 time=00:00:01 speed=2x", "frame= 10", "ffmpeg version 6"}

VARIABLES
    jobState,   \* keys of the Map<string, JobState> (the job table)
    jobs,       \* the JobState objects: [jobData, state, progressStream]
    task,       \* each job's async task: [pc, error]
    dl,         \* each job's download: [stream, write, chunks, totalSize]
    cp,         \* each job's child process: [status, code, lines]
    events,     \* history: the events emitProgress emitted, per job
    conns,      \* the SSE requests: response, request and heartbeat state
    nextUid,    \* the next job id addJob allocates
    statusResponse, \* the last response of the job status endpoint
    enc,        \* one video encoding run: the selector's position and its invocations
    scene,      \* one scene compilation: the request, the filter program built so far
    geo,        \* the last call of a geometry helper: its arguments and its result
    fmt,        \* the last call of a formatting helper: its arguments and its result
    base        \* one request's base composite: the main-content steps and overlay

\* The state outside the job service and its progress streams.
otherVars == <<statusResponse, enc, scene, geo, fmt, base>>

\* The job service, its progress streams and the SSE requests.
jobVars == <<jobState, jobs, task, dl, cp, events, conns, nextUid>>

vars == <<jobState, jobs, task, dl, cp, events, conns, nextUid, otherVars>>

\* ------------------------------------------------------- observer side
NoJob == [jobData |-> "none", state |-> "", progressStream |-> <<>>]
NoConn == [status |-> "idle", jobId |-> 0, sent |-> <<>>, ended |-> FALSE,
           closed |-> FALSE, errored |-> FALSE, heartbeat |-> FALSE, beats |-> 0,
           attachedAt |-> 0, detachedAt |-> 0]

\* res.write: a response that was ended takes no more data.
resWrite(conn, data) ==
    IF conn.ended THEN conn ELSE [conn EXCEPT !.sent = Append(@, data)]

resEnd(conn) == [conn EXCEPT !.ended = TRUE]

sseData(type, event) ==
    [type |-> type, phase |-> event.phase, message |-> event.message]

progressListener(conn, event) == resWrite(conn, sseData("progress", event))

completionStates == {"COMPLETED", "FAILED"}

completionListenerNoEnd(conn, event) ==
    IF event.phase \in completionStates
    THEN resWrite(conn, sseData("completion", event))
    ELSE conn

completionListener(conn, event) ==
    IF event.phase \in completionStates
    THEN resEnd(resWrite(conn, sseData("completion", event)))
    ELSE conn

\* EventEmitter.emit: the listeners run synchronously in registration order.
RECURSIVE emit(_, _, _)
emit(cs, listeners, event) ==
    IF listeners = <<>> THEN cs
    ELSE LET l == Head(listeners)
             cs1 == [cs EXCEPT ![l.conn] =
                        IF l.fn = "progressListener"
                        THEN progressListener(@, event)
                        ELSE completionListener(@, event)]
         IN emit(cs1, Tail(listeners), event)

\* ------------------------------------------------------- job service
\* The part of the state one synchronous run of job code reads and writes.
World == [jobs |-> jobs, events |-> events, conns |-> conns]

emitProgress(w, j, phase, message) ==
    LET event == [phase |-> phase, message |-> message]
    IN [jobs |-> [w.jobs EXCEPT ![j].state = "[" \o phase \o "] " \o message],
        events |-> [w.events EXCEPT ![j] = Append(@, event)],
        conns |-> emit(w.conns, w.jobs[j].progressStream, event)]

setState(w, j, s) == [w EXCEPT !.jobs[j].state = s]

getJobStatusByIdsAll(ids) ==
    [id \in ids |-> IF id \in jobState THEN jobs[id].state ELSE "NOT_FOUND"]

getJobStatusByIds(ids) ==
    [id \in (ids \cap jobState) |-> jobs[id].state]

getJobProgressStream(jobId) ==
    IF jobId \in jobState THEN jobs[jobId].progressStream ELSE <<>>

\* processJobAsync after `await processor(jobState)` returned.
jobCompleted(w, j) ==
    setState(emitProgress(w, j, "COMPLETED", "Job completed successfully"),
             j, "COMPLETED")

\* processJobAsync's catch block.
jobFailed(w, j, message) ==
    setState(emitProgress(w, j, "FAILED", "Job failed: " \o message), j, "FAILED")

handlerCatchAsFailed(w, j, message) ==
    emitProgress(w, j, "FAILED", "Failed: " \o message)

\* The handler's own catch block, which rethrows.
handlerCatch(w, j, message) == emitProgress(w, j, "ERROR", "Failed: " \o message)

handlerThrows(w, j, message) == jobFailed(handlerCatch(w, j, message), j, message)

\* processJobAsync up to its first suspension: the processor lookup.
processJobAsyncStartNoEmit(w, j) ==
    IF w.jobs[j].jobData \in jobProcessorMap
    THEN w
    ELSE setState(emitProgress(w, j, "FAILED", "No processor found for job type"),
                  j, "FAILED")

processJobAsyncStart(w, j) ==
    IF w.jobs[j].jobData \in jobProcessorMap
    THEN emitProgress(w, j, "PROCESSING", "Job started")
    ELSE setState(emitProgress(w, j, "FAILED", "No processor found for job type"),
                  j, "FAILED")

IsImage(j) == jobs[j].jobData = "CompressImageReqJobData"

Apply(w) ==
    /\ jobs' = w.jobs
    /\ events' = w.events
    /\ conns' = w.conns

Goto(j, pc) == task' = [task EXCEPT ![j].pc = pc]
Fail(j, message) == task' = [task EXCEPT ![j] = [pc |-> "done", error |-> message]]

\* No status request was answered yet.
NoResponse == [ids |-> <<>>, status |-> "none", data |-> <<>>]

\* No encoding run was started yet.
NoEncoding == [impl |-> "none", useNvenc |-> FALSE, pc |-> "idle", calls |-> <<>>,
               success |-> FALSE, result |-> "", error |-> ""]

\* No helper was called yet.
NoCall == [fn |-> "none", args |-> <<>>, result |-> <<>>]

\* No scene was submitted yet.
NoScene == [impl |-> "none", stickers |-> <<>>, textOverlays |-> <<>>, pc |-> "idle",
            layers |-> <<>>, next |-> 1, filterChains |-> <<>>, textFilters |-> <<>>,
            last |-> "", invoked |-> FALSE, program |-> <<>>, map |-> "", error |-> ""]

\* No request's content was compiled yet.
NoBase == [impl |-> "none", request |-> <<>>, steps |-> <<>>, overlay |-> <<>>]

OtherInit ==
    /\ statusResponse = NoResponse
    /\ enc = NoEncoding
    /\ scene = NoScene
    /\ geo = NoCall
    /\ fmt = NoCall
    /\ base = NoBase

Init ==
    /\ jobState = {}
    /\ jobs = [j \in JobIds |-> NoJob]
    /\ task = [j \in JobIds |-> [pc |-> "none", error |-> ""]]
    /\ dl = [j \in JobIds |-> [stream |-> "none", write |-> "none", chunks |-> 0,
                             totalSize |-> FALSE]]
    /\ cp = [j \in JobIds |-> [status |-> "none", code |-> "", lines |-> 0]]
    /\ events = [j \in JobIds |-> <<>>]
    /\ conns = [c \in 1..MaxConns |-> NoConn]
    /\ nextUid = 1
    /\ OtherInit

\* addJob, with the synchronous start of processJobAsync it calls.
addJob(jobData) ==
    /\ nextUid <= MaxJobs
    /\ LET uid == nextUid
           w0 == [World EXCEPT !.jobs[uid] =
                     [jobData |-> jobData, state |-> "QUEUED", progressStream |-> <<>>]]
           w1 == emitProgress(w0, uid, "QUEUE", "Job queued for processing")
           w2 == processJobAsyncStart(w1, uid)
       IN /\ Apply(w2)
          /\ jobState' = jobState \cup {uid}
          /\ Goto(uid, IF jobData \in jobProcessorMap THEN "ensureDownloadDir" ELSE "done")
    /\ nextUid' = nextUid + 1
    /\ UNCHANGED <<dl, cp, otherVars>>

\* handler: `await ensureDirectoryExists(downloadDir)` returned or threw.
EnsureDownloadDir(j, ok) ==
    /\ task[j].pc = "ensureDownloadDir"
    /\ IF ok
       THEN /\ Apply(emitProgress(World, j, "DOWNLOAD", "Starting download from URL"))
            /\ Goto(j, "downloadMediaFromUrl")
       ELSE /\ Apply(handlerThrows(World, j, "EACCES: mkdir"))
            /\ Fail(j, "EACCES: mkdir")
    /\ UNCHANGED <<jobState, dl, cp, nextUid, otherVars>>

\* handler: `await this.mediaService.downloadMediaFromUrl(...)` returned or threw.
DownloadMediaFromUrl(j, ok) ==
    /\ task[j].pc = "downloadMediaFromUrl"
    /\ IF ok
       THEN /\ Apply(emitProgress(World, j, "DOWNLOAD",
                        IF IsImage(j) THEN "Fetched image metadata"
                        ELSE "Fetched media metadata"))
            /\ Goto(j, "fileExistsInput")
       ELSE /\ Apply(handlerThrows(World, j, "Download failed"))
            /\ Fail(j, "Download failed")
    /\ UNCHANGED <<jobState, dl, cp, nextUid, otherVars>>

\* handler line 159/316: the compression phase starts.
startCompression(w, j) ==
    emitProgress(w, j, "FFMPEG",
        IF IsImage(j) THEN "Starting image compression" ELSE "Starting compression")

\* handler: `await fileExists(finalFilePath)` returned; when the file is missing,
\* downloadWithProgress runs up to the promise it returns.
FileExistsInput(j, exists, hasLength) ==
    /\ task[j].pc = "fileExistsInput"
    /\ IF exists
       THEN /\ Apply(startCompression(
                  emitProgress(World, j, "DOWNLOAD", "File already exists, skipping download"), j))
            /\ Goto(j, "ensureOutputDir")
            /\ dl' = dl
       ELSE /\ Apply(emitProgress(World, j, "DOWNLOAD",
                        IF hasLength THEN "Starting 1 KB download"
                        ELSE "Starting download (size unknown)"))
            /\ Goto(j, "downloadWithProgress")
            /\ dl' = [dl EXCEPT ![j] = [stream |-> "flowing", write |-> "open",
                                        chunks |-> 0, totalSize |-> hasLength]]
    /\ UNCHANGED <<jobState, cp, nextUid, otherVars>>

\* The continuation of `await this.downloadWithProgress(...)`: it runs once, for the
\* first resolve or reject; a later settle of the same promise does nothing.
downloadSettled(w, j, rejected, message) ==
    IF task[j].pc # "downloadWithProgress" THEN w
    ELSE IF rejected THEN handlerThrows(w, j, message)
    ELSE startCompression(emitProgress(w, j, "DOWNLOAD", "Successfully downloaded"), j)

DownloadTask(j, rejected, message) ==
    IF task[j].pc # "downloadWithProgress" THEN task' = task
    ELSE IF rejected THEN Fail(j, message)
    ELSE Goto(j, "ensureOutputDir")

\* stream.on('data')
StreamData(j) ==
    /\ dl[j].stream = "flowing"
    /\ dl[j].chunks < MaxChunks
    /\ Apply(emitProgress(World, j, "DOWNLOAD",
                IF dl[j].totalSize THEN "50.0% - 512 Bytes/1 KB at 512 Bytes/s"
                ELSE "512 Bytes at 512 Bytes/s"))
    /\ dl' = [dl EXCEPT ![j].chunks = @ + 1]
    /\ UNCHANGED <<jobState, task, cp, nextUid, otherVars>>

\* stream.on('end'): resolve()
StreamEnd(j) ==
    /\ dl[j].stream = "flowing"
    /\ Apply(downloadSettled(
          emitProgress(World, j, "DOWNLOAD", "Download completed"), j, FALSE, ""))
    /\ DownloadTask(j, FALSE, "")
    /\ dl' = [dl EXCEPT ![j].stream = "ended"]
    /\ UNCHANGED <<jobState, cp, nextUid, otherVars>>

\* stream.on('error'): reject(error)
StreamError(j) ==
    /\ dl[j].stream = "flowing"
    /\ Apply(downloadSettled(
          emitProgress(World, j, "DOWNLOAD", "Download failed: ECONNRESET"),
          j, TRUE, "ECONNRESET"))
    /\ DownloadTask(j, TRUE, "ECONNRESET")
    /\ dl' = [dl EXCEPT ![j].stream = "errored"]
    /\ UNCHANGED <<jobState, cp, nextUid, otherVars>>

\* writeStream.on('error'): reject(error). The readable keeps its own listeners.
WriteStreamError(j) ==
    /\ dl[j].write = "open"
    /\ Apply(downloadSettled(
          emitProgress(World, j, "DOWNLOAD", "Write failed: ENOSPC"), j, TRUE, "ENOSPC"))
    /\ DownloadTask(j, TRUE, "ENOSPC")
    /\ dl' = [dl EXCEPT ![j].write = "errored"]
    /\ UNCHANGED <<jobState, cp, nextUid, otherVars>>

\* handler: `await ensureDirectoryExists(outputDir)` returned or threw.
EnsureOutputDir(j, ok) ==
    /\ task[j].pc = "ensureOutputDir"
    /\ IF ok
       THEN /\ Goto(j, "fileExistsOutput")
            /\ UNCHANGED <<jobs, events, conns>>
       ELSE /\ Apply(handlerThrows(World, j, "EACCES: mkdir"))
            /\ Fail(j, "EACCES: mkdir")
    /\ UNCHANGED <<jobState, dl, cp, nextUid, otherVars>>

\* handler: `await fileExists(finalOutputPath)`; an existing output returns at once
\* and processJobAsync completes the job.
FileExistsOutput(j, exists) ==
    /\ task[j].pc = "fileExistsOutput"
    /\ IF exists
       THEN /\ Apply(jobCompleted(
                  emitProgress(World, j, "FFMPEG",
                      IF IsImage(j) THEN "Compressed image already exists"
                      ELSE "Compressed file already exists"), j))
            /\ Goto(j, "done")
       ELSE /\ Goto(j, "verifyInput")
            /\ UNCHANGED <<jobs, events, conns>>
    /\ UNCHANGED <<jobState, dl, cp, nextUid, otherVars>>

\* handler: `await fileExists(finalFilePath)` before compression; then the child
\* process is started and its listeners are attached.
VerifyInput(j, exists) ==
    /\ task[j].pc = "verifyInput"
    /\ IF exists
       THEN /\ Goto(j, "compress")
            /\ cp' = [cp EXCEPT ![j].status = "spawning"]
            /\ UNCHANGED <<jobs, events, conns>>
       ELSE /\ Apply(handlerThrows(World, j, "Input file not found for compression"))
            /\ Fail(j, "Input file not found for compression")
            /\ cp' = cp
    /\ UNCHANGED <<jobState, dl, nextUid, otherVars>>

\* The continuation of `await new Promise(...)` around the child process: it runs
\* once, for the first resolve or reject.
compressSettled(w, j, rejected, message) ==
    IF task[j].pc # "compress" THEN w
    ELSE IF rejected THEN handlerThrows(w, j, message)
    ELSE w

CompressTask(j, rejected, message) ==
    IF task[j].pc # "compress" THEN task' = task
    ELSE IF rejected THEN Fail(j, message)
    ELSE Goto(j, "verifyOutput")

\* cp.on('spawn')
CpSpawn(j) ==
    /\ cp[j].status = "spawning"
    /\ Apply(emitProgress(World, j, "FFMPEG",
                IF IsImage(j) THEN "Image process spawned successfully"
                ELSE "Process spawned successfully"))
    /\ cp' = [cp EXCEPT ![j].status = "running"]
    /\ UNCHANGED <<jobState, task, dl, nextUid, otherVars>>

\* cp.on('error'): the process could not be spawned.
CpError(j) ==
    /\ cp[j].status = "spawning"
    /\ Apply(compressSettled(
          emitProgress(World, j, "FFMPEG", "Process error: spawn EAGAIN"),
          j, TRUE, "spawn EAGAIN"))
    /\ CompressTask(j, TRUE, "spawn EAGAIN")
    /\ cp' = [cp EXCEPT ![j].status = "errored", ![j].code = "-11"]
    /\ UNCHANGED <<jobState, dl, nextUid, otherVars>>

\* cp.stdout.on('data'): empty output is skipped.
CpStdout(j, output) ==
    /\ cp[j].status \in {"running", "exited"}
    /\ cp[j].lines < MaxLines
    /\ IF output # ""
       THEN Apply(emitProgress(World, j, "FFMPEG", output))
       ELSE UNCHANGED <<jobs, events, conns>>
    /\ cp' = [cp EXCEPT ![j].lines = @ + 1]
    /\ UNCHANGED <<jobState, task, dl, nextUid, otherVars>>

\* The stderr parser of the video handler (time=/speed=, frame=, raw line); the
\* image handler forwards the raw line.
stderrMessage(j, output) ==
    IF IsImage(j) THEN output
    ELSE IF output = "frame= 10 time=00:00:01 speed=2x"
         THEN "Processing... Time: 00:00:01, Speed: 2x"
    ELSE IF output = "frame= 10" THEN "Processing frame 10..."
    ELSE output

\* cp.stderr.on('data')
CpStderr(j, output) ==
    /\ cp[j].status \in {"running", "exited"}
    /\ cp[j].lines < MaxLines
    /\ Apply(emitProgress(World, j, "FFMPEG", stderrMessage(j, output)))
    /\ cp' = [cp EXCEPT ![j].lines = @ + 1]
    /\ UNCHANGED <<jobState, task, dl, nextUid, otherVars>>

\* The 'exit' listener: emits and rejects for a nonzero, non-null code.
onExit(w, j, code) ==
    IF code # "0" /\ code # "null"
    THEN emitProgress(w, j, "FFMPEG", "FFmpeg exited with code: " \o code)
    ELSE w

\* The 'close' listener: resolves for code 0, emits and rejects otherwise.
onClose(w, j, code) ==
    IF code = "0"
    THEN emitProgress(w, j, "FFMPEG",
            IF IsImage(j) THEN "Image compression completed successfully"
            ELSE "Compression completed successfully")
    ELSE emitProgress(w, j, "FFMPEG",
            (IF IsImage(j) THEN "FFmpeg image process failed with code: "
             ELSE "FFmpeg process failed with code: ") \o code)

closeMessage(j, code) ==
    (IF IsImage(j) THEN "FFmpeg image process failed with code: "
     ELSE "FFmpeg process failed with code: ") \o code

\* cp.on('exit'). When the stdio streams are already closed, 'close' is emitted in
\* the same tick, before the continuation of the settled promise runs.
CpExit(j, code, closeNow) ==
    /\ cp[j].status = "running"
    /\ LET w1 == onExit(World, j, code)
           w2 == IF closeNow THEN onClose(w1, j, code) ELSE w1
           exitRejects == code # "0" /\ code # "null"
           settles == exitRejects \/ closeNow
           rejected == code # "0"
           message == IF exitRejects THEN "FFmpeg exited with code: " \o code
                      ELSE closeMessage(j, code)
       IN IF settles
          THEN /\ Apply(compressSettled(w2, j, rejected, message))
               /\ CompressTask(j, rejected, message)
          ELSE /\ Apply(w2)
               /\ task' = task
    /\ cp' = [cp EXCEPT ![j].status = IF closeNow THEN "closed" ELSE "exited",
                        ![j].code = code]
    /\ UNCHANGED <<jobState, dl, nextUid, otherVars>>

\* cp.on('close'), after 'exit' or after 'error'.
CpClose(j) ==
    /\ cp[j].status \in {"exited", "errored"}
    /\ LET code == cp[j].code
       IN /\ Apply(compressSettled(onClose(World, j, code), j, code # "0",
                                   closeMessage(j, code)))
          /\ CompressTask(j, code # "0", closeMessage(j, code))
    /\ cp' = [cp EXCEPT ![j].status = "closed"]
    /\ UNCHANGED <<jobState, dl, nextUid, otherVars>>

\* handler: `await fileExists(finalOutputPath)` after the compression; then the
\* handler returns or throws and processJobAsync ends the job.
VerifyOutput(j, exists) ==
    /\ task[j].pc = "verifyOutput"
    /\ IF exists
       THEN /\ Apply(jobCompleted(
                  emitProgress(World, j, "FFMPEG",
                      IF IsImage(j) THEN "Image compression complete!"
                      ELSE "Compression complete!"), j))
            /\ Goto(j, "done")
       ELSE LET message == IF IsImage(j)
                  THEN "[FFMPEG] Image compression completed but output file not found"
                  ELSE "[FFMPEG] Compression completed but output file not found"
            IN /\ Apply(handlerThrows(World, j, message))
               /\ Fail(j, message)
    /\ UNCHANGED <<jobState, dl, cp, nextUid, otherVars>>

\* ------------------------------------------------------- SSE controller
listenersOf(c) ==
    <<[fn |-> "progressListener", conn |-> c], [fn |-> "completionListener", conn |-> c]>>

\* progressStream.removeListener('progress', ...) for both listeners of request c.
removeListeners(stream, c) == SelectSeq(stream, LAMBDA l : l.conn # c)

\* cleanupJobStream marking the job it leaves in the table as failed, so that the
\* next call frees it.
cleanupJobStreamMarking(table, js, jobId) ==
    IF jobId \in table
    THEN [jobs |-> [js EXCEPT ![jobId].progressStream = <<>>, ![jobId].state = "FAILED"],
          jobState |-> IF js[jobId].state = "COMPLETED" \/ js[jobId].state = "FAILED"
                       THEN table \ {jobId} ELSE table]
    ELSE [jobs |-> js, jobState |-> table]

\* cleanupJobStream: the job table and the job objects after the call.
cleanupJobStream(table, js, jobId) ==
    IF jobId \in table
    THEN [jobs |-> [js EXCEPT ![jobId].progressStream = <<>>],
          jobState |-> IF js[jobId].state = "COMPLETED" \/ js[jobId].state = "FAILED"
                       THEN table \ {jobId} ELSE table]
    ELSE [jobs |-> js, jobState |-> table]

\* The request handled by the next SSE call: requests are numbered in arrival order.
ConnIds == DOMAIN conns

NextConn(c) ==
    /\ conns[c].status = "idle"
    /\ \A d \in ConnIds : d < c => conns[d].status # "idle"

\* getJobProgressSSE: 404 for an unknown job; otherwise the connected event, the two
\* listeners and the heartbeat interval.
getJobProgressSSE(c, jobId) ==
    /\ NextConn(c)
    /\ IF jobId \notin jobState
       THEN /\ conns' = [conns EXCEPT ![c].status = "notFound", ![c].jobId = jobId]
            /\ jobs' = jobs
       ELSE /\ conns' = [conns EXCEPT ![c] =
                  [NoConn EXCEPT !.status = "open", !.jobId = jobId,
                       !.sent = <<[type |-> "connected", phase |-> "",
                                   message |-> "Connected to job progress stream"]>>,
                       !.heartbeat = TRUE,
                       !.attachedAt = Len(events[jobId])]]
            /\ jobs' = [jobs EXCEPT ![jobId].progressStream = @ \o listenersOf(c)]
    /\ UNCHANGED <<jobState, task, dl, cp, events, nextUid, otherVars>>

\* The setInterval callback.
Heartbeat(c) ==
    /\ conns[c].status = "open"
    /\ conns[c].heartbeat
    /\ conns[c].beats < MaxBeats
    /\ conns' = [conns EXCEPT ![c] =
          [resWrite(@, [type |-> "heartbeat", phase |-> "", message |-> ""])
             EXCEPT !.beats = @ + 1]]
    /\ UNCHANGED <<jobState, jobs, task, dl, cp, events, nextUid, otherVars>>

\* The detach handling shared by the 'close' and 'error' handlers of the request,
\* run on a job table and its job objects.
detachFrom(table, js, c) ==
    LET jobId == conns[c].jobId
    IN cleanupJobStream(table,
                        [js EXCEPT ![jobId].progressStream = removeListeners(@, c)],
                        jobId)

detach(c) == detachFrom(jobState, jobs, c)

\* req.on('close'): both 'close' handlers (client disconnect, or the socket closing
\* after res.end()).
ReqClose(c) ==
    /\ conns[c].status = "open"
    /\ ~conns[c].closed
    /\ jobs' = detach(c).jobs
    /\ jobState' = detach(c).jobState
    /\ conns' = [conns EXCEPT ![c].closed = TRUE, ![c].heartbeat = FALSE,
                              ![c].detachedAt =
                                  IF conns[c].errored THEN @ ELSE Len(events[conns[c].jobId])]
    /\ UNCHANGED <<task, dl, cp, events, nextUid, otherVars>>

\* req.on('error'): both 'error' handlers; 'close' follows.
ReqError(c) ==
    /\ conns[c].status = "open"
    /\ ~conns[c].closed
    /\ ~conns[c].errored
    /\ jobs' = detach(c).jobs
    /\ jobState' = detach(c).jobState
    /\ conns' = [conns EXCEPT ![c].errored = TRUE, ![c].heartbeat = FALSE,
                              ![c].detachedAt = Len(events[conns[c].jobId])]
    /\ UNCHANGED <<task, dl, cp, events, nextUid, otherVars>>

Next ==
    \/ \E k \in JobKinds : addJob(k)
    \/ \E j \in JobIds, ok \in BOOLEAN : EnsureDownloadDir(j, ok)
    \/ \E j \in JobIds, ok \in BOOLEAN : DownloadMediaFromUrl(j, ok)
    \/ \E j \in JobIds, exists \in BOOLEAN, hasLength \in BOOLEAN :
          FileExistsInput(j, exists, hasLength)
    \/ \E j \in JobIds : StreamData(j)
    \/ \E j \in JobIds : StreamEnd(j)
    \/ \E j \in JobIds : StreamError(j)
    \/ \E j \in JobIds : WriteStreamError(j)
    \/ \E j \in JobIds, ok \in BOOLEAN : EnsureOutputDir(j, ok)
    \/ \E j \in JobIds, exists \in BOOLEAN : FileExistsOutput(j, exists)
    \/ \E j \in JobIds, exists \in BOOLEAN : VerifyInput(j, exists)
    \/ \E j \in JobIds : CpSpawn(j)
    \/ \E j \in JobIds : CpError(j)
    \/ \E j \in JobIds, output \in StdoutLines : CpStdout(j, output)
    \/ \E j \in JobIds, output \in StderrLines : CpStderr(j, output)
    \/ \E j \in JobIds, code \in ExitCodes, closeNow \in BOOLEAN : CpExit(j, code, closeNow)
    \/ \E j \in JobIds : CpClose(j)
    \/ \E j \in JobIds, exists \in BOOLEAN : VerifyOutput(j, exists)
    \/ \E c \in 1..MaxConns, jobId \in JobIds : getJobProgressSSE(c, jobId)
    \/ \E c \in 1..MaxConns : Heartbeat(c)
    \/ \E c \in 1..MaxConns : ReqClose(c)
    \/ \E c \in 1..MaxConns : ReqError(c)

Spec == Init /\ [][Next]_vars

\* ------------------------------------------------------- fan-out scenario
\* Several observers of one video job whose input is cached and whose output
\* directory is present; the requests are never errored and no heartbeat is due.
FanoutInit ==
    /\ jobState = {}
    /\ jobs = [j \in JobIds |-> NoJob]
    /\ task = [j \in JobIds |-> [pc |-> "none", error |-> ""]]
    /\ dl = [j \in JobIds |-> [stream |-> "none", write |-> "none", chunks |-> 0,
                             totalSize |-> FALSE]]
    /\ cp = [j \in JobIds |-> [status |-> "none", code |-> "", lines |-> 0]]
    /\ events = [j \in JobIds |-> <<>>]
    /\ conns = [c \in 1..MaxObservers |-> NoConn]
    /\ nextUid = 1
    /\ OtherInit

FanoutJobStep(j) ==
    \/ EnsureDownloadDir(j, TRUE)
    \/ \E ok \in BOOLEAN : DownloadMediaFromUrl(j, ok)
    \/ FileExistsInput(j, TRUE, FALSE)
    \/ EnsureOutputDir(j, TRUE)
    \/ \E exists \in BOOLEAN : FileExistsOutput(j, exists)
    \/ VerifyInput(j, TRUE)
    \/ CpSpawn(j)
    \/ \E code \in {"0", "1"} : CpExit(j, code, FALSE)
    \/ CpClose(j)
    \/ VerifyOutput(j, TRUE)

FanoutNext ==
    \/ addJob("CompressMediaReqJobData")
    \/ \E j \in JobIds : FanoutJobStep(j)
    \/ \E c \in 1..MaxObservers, jobId \in JobIds : getJobProgressSSE(c, jobId)
    \/ \E c \in 1..MaxObservers : ReqClose(c)

FanoutSpec == FanoutInit /\ [][FanoutNext]_vars

\* The request's 'close' after the server ended the response.
ServerClose(c) == conns[c].ended /\ ReqClose(c)

\* Every pending I/O completion and child process event is eventually delivered,
\* and an ended response is eventually followed by the request's 'close'.
FairFanoutSpec ==
    /\ FanoutSpec
    /\ \A j \in JobIds : WF_vars(FanoutJobStep(j))
    /\ \A c \in 1..MaxObservers : WF_vars(ServerClose(c))

\* ------------------------------------------------------- status endpoint
\* The ids a client can ask for: the ids addJob can allocate and one it never does.
QueryIds == 1..(MaxJobs + 1)

\* The `ids` query parameter after split(',') and trim.
IdLists == UNION {[1..n -> QueryIds] : n \in 0..MaxIds}

idsOf(ids) == {ids[i] : i \in DOMAIN ids}

\* JobController.getJobStatus: 400 for an empty list, otherwise 200 with the map
\* getJobStatusByIds returned.
getJobStatus(ids) ==
    /\ statusResponse' =
          IF Len(ids) = 0
          THEN [ids |-> ids, status |-> "400", data |-> <<>>]
          ELSE [ids |-> ids, status |-> "200", data |-> getJobStatusByIds(idsOf(ids))]
    /\ UNCHANGED <<jobVars, enc, scene, geo, fmt, base>>

\* The fan-out scenario with clients polling the status endpoint.
StatusNext ==
    \/ FanoutNext
    \/ \E ids \in IdLists : getJobStatus(ids)

StatusSpec == FanoutInit /\ [][StatusNext]_vars

\* ------------------------------------------------------- encoding selector
\* The encoder argument sets, in the order the code tries them.
Profiles == <<"h264_nvenc -c:a copy", "libx264 -c:a copy", "libx264 -c:a aac">>

ProfileIndex(profile) == CHOOSE i \in DOMAIN Profiles : Profiles[i] = profile

\* The two implementations of the video pipeline.
EncoderImpls == {"VideoProcessor", "processVideo"}

\* How one ffmpeg invocation ends: exit code 0, a nonzero exit code, a spawn
\* failure, or the kill by execa's `timeout` option.
ExecaOutcomes == {"exit 0", "exit 1", "spawn ENOENT", "timed out"}

\* The message of the error execa rejects with.
execaError(outcome) ==
    IF outcome = "exit 1" THEN "Command failed with exit code 1: ffmpeg"
    ELSE IF outcome = "spawn ENOENT" THEN "Command failed with ENOENT: ffmpeg"
    ELSE "Command timed out after 600000 milliseconds: ffmpeg"

\* execa('ffmpeg', [...common, <profile>, outputPath]) is called: the child is spawned.
invoke(e, profile) ==
    [e EXCEPT !.pc = "execa", !.calls = Append(@, [profile |-> profile, outcome |-> "pending"])]

\* The run with the outcome of the invocation in flight recorded.
settled(e, outcome) == [e EXCEPT !.calls[Len(e.calls)].outcome = outcome]

\* The profile after the one in flight; the code has no loop, each try block is
\* followed by the next one.
hasNext(e) == ProfileIndex(e.calls[Len(e.calls)].profile) < Len(Profiles)
nextProfile(e) == Profiles[ProfileIndex(e.calls[Len(e.calls)].profile) + 1]

sameProfile(e) == e.calls[Len(e.calls)].profile

\* VideoProcessor.tryVideoEncoding and the end of VideoProcessor.process, from the
\* settling of `await this.executeFFmpeg(...)` to the next suspension.
tryVideoEncodingAlways(e, outcome) ==
    IF hasNext(e) THEN invoke(settled(e, outcome), nextProfile(e))
    ELSE IF outcome = "exit 0" THEN [settled(e, outcome) EXCEPT !.success = TRUE, !.pc = "stat"]
    ELSE [settled(e, outcome) EXCEPT !.pc = "threw",
                                     !.error = "All video encoding attempts failed"]

tryVideoEncodingLastWins(e, outcome) ==
    IF outcome = "exit 0" \/ ~hasNext(e)
    THEN [settled(e, outcome) EXCEPT !.success = TRUE, !.pc = "stat"]
    ELSE invoke(settled(e, outcome), nextProfile(e))

tryVideoEncoding(e, outcome) ==
    IF outcome = "exit 0"
    THEN [settled(e, outcome) EXCEPT !.success = TRUE, !.pc = "stat"]
    ELSE IF hasNext(e) THEN invoke(settled(e, outcome), nextProfile(e))
    ELSE [settled(e, outcome) EXCEPT !.pc = "threw",
                                     !.error = "All video encoding attempts failed"]

\* processVideo's encoder selection, from the settling of `await execa(...)` on:
\* the last invocation is awaited in the catch block, so its error is the call's.
processVideoEncode(e, outcome) ==
    IF outcome = "exit 0"
    THEN [settled(e, outcome) EXCEPT !.success = TRUE, !.pc = "returned"]
    ELSE IF hasNext(e) THEN invoke(settled(e, outcome), nextProfile(e))
    ELSE [settled(e, outcome) EXCEPT !.pc = "threw", !.error = execaError(outcome)]

\* The catch block that follows a failed invocation.
onFailureRetry(e, outcome) ==
    IF outcome = "timed out" THEN invoke(settled(e, outcome), sameProfile(e))
    ELSE IF e.impl = "VideoProcessor" THEN tryVideoEncoding(e, outcome)
    ELSE processVideoEncode(e, outcome)

afterExeca(e, outcome) ==
    IF e.impl = "VideoProcessor" THEN tryVideoEncoding(e, outcome)
    ELSE processVideoEncode(e, outcome)

\* The pipeline reaches the encoder selection: the first profile is NVENC when
\* VIDEO_ENCODER is 'nvenc', libx264 with audio copy otherwise.
StartEncoding(impl, useNvenc) ==
    /\ enc.pc = "idle"
    /\ enc' = invoke([NoEncoding EXCEPT !.impl = impl, !.useNvenc = useNvenc],
                     IF useNvenc THEN Profiles[1] ELSE Profiles[2])
    /\ UNCHANGED <<jobVars, statusResponse, scene, geo, fmt, base>>

\* The ffmpeg invocation in flight ends.
ExecaSettles(outcome) ==
    /\ enc.pc = "execa"
    /\ Len(enc.calls) < MaxInvocations
    /\ enc' = afterExeca(enc, outcome)
    /\ UNCHANGED <<jobVars, statusResponse, scene, geo, fmt, base>>

\* VideoProcessor.process: `await fs.stat(outputPath)` after a successful encoding.
StatOutput(ok) ==
    /\ enc.pc = "stat"
    /\ enc' = IF ok THEN [enc EXCEPT !.pc = "returned", !.result = "ProcessingResult"]
              ELSE [enc EXCEPT !.pc = "threw", !.error = "ENOENT: stat"]
    /\ UNCHANGED <<jobVars, statusResponse, scene, geo, fmt, base>>

EncodingNext ==
    \/ \E impl \in EncoderImpls, useNvenc \in BOOLEAN : StartEncoding(impl, useNvenc)
    \/ \E outcome \in ExecaOutcomes : ExecaSettles(outcome)
    \/ \E ok \in BOOLEAN : StatOutput(ok)

EncodingSpec == Init /\ [][EncodingNext]_vars

\* ------------------------------------------------------- scene graph compiler
\* The four pipelines that build a filter program: the two processors built on
\* BaseProcessor and the two worker functions.
SceneImpls == {"ImageProcessor", "VideoProcessor", "processVideo", "processImage"}
BaseProcessors == {"ImageProcessor", "VideoProcessor"}

\* Logical asset names a request can carry, and the files present in assets/.
StickerNames == {"star", "ghost"}
stickerFiles == {"star"}
FontFamilies == {"Poppins", "Papyrus"}
fontFiles == {"Poppins"}

ZValues == {1, 3, 5}
Rotations == {0, 90}

Stickers == [name : StickerNames, z : ZValues]
TextOverlays == [fontFamily : FontFamilies, z : ZValues, rotation : Rotations]

SeqsUpTo(S, n) == UNION {[1..k -> S] : k \in 0..n}

\* One filter statement `[reads...]op[out]`; an overlay statement carries whose
\* position its x:y arguments are computed from.
Stmt(reads, op, out, position) ==
    [reads |-> reads, op |-> op, out |-> out, position |-> position]

\* Template strings with an array index: the code counts from 0.
Tag(prefix, i) == prefix \o ToString(i - 1)
InputPad(n) == ToString(n) \o ":v"

\* The layer list before sorting: stickers in list order, then text overlays.
layerList(stickers, textOverlays, textTags) ==
    [i \in 1..Len(stickers) |->
        [type |-> "sticker", z |-> stickers[i].z, idx |-> i, tag |-> Tag("sticker_", i)]]
    \o [i \in 1..Len(textOverlays) |->
        [type |-> "text", z |-> textOverlays[i].z, idx |-> i, tag |-> textTags[i]]]

\* Array.prototype.sort((a, b) => a.z - b.z): a stable sort.
RECURSIVE insertBeforeEqual(_, _)
insertBeforeEqual(sorted, l) ==
    IF sorted = <<>> THEN <<l>>
    ELSE IF Head(sorted).z < l.z THEN <<Head(sorted)>> \o insertBeforeEqual(Tail(sorted), l)
    ELSE <<l>> \o sorted

RECURSIVE insertByZ(_, _)
insertByZ(sorted, l) ==
    IF sorted = <<>> THEN <<l>>
    ELSE IF Head(sorted).z <= l.z THEN <<Head(sorted)>> \o insertByZ(Tail(sorted), l)
    ELSE <<l>> \o sorted

RECURSIVE sortUnstable(_)
sortUnstable(layers) ==
    IF layers = <<>> THEN <<>>
    ELSE insertBeforeEqual(sortUnstable(SubSeq(layers, 1, Len(layers) - 1)),
                           layers[Len(layers)])

RECURSIVE sortByZ(_)
sortByZ(layers) ==
    IF layers = <<>> THEN <<>>
    ELSE insertByZ(sortByZ(SubSeq(layers, 1, Len(layers) - 1)), layers[Len(layers)])

\* --- BaseProcessor
buildMainContentFilter == Stmt(<<InputPad(1)>>, "main", "main_content", <<>>)

\* buildCanvasOverlay, and the statement VideoProcessor.process writes itself.
buildCanvasOverlay ==
    Stmt(<<InputPad(0), "main_content">>, "overlay", "canvas_with_content", <<"content">>)

buildStickerFilters(stickers) ==
    [i \in 1..Len(stickers) |->
        Stmt(<<InputPad(2 + i - 1)>>, "sticker", Tag("sticker_", i), <<>>)]

\* buildTextFilters, loop body before `await resolveFontPath`.
textCanvasFilter(i) == Stmt(<<>>, "color", Tag("text_canvas_", i), <<>>)

\* buildTextFilters, loop body after `await resolveFontPath`.
drawTextFilters(text, i) ==
    <<Stmt(<<Tag("text_canvas_", i)>>, "drawtext", Tag("text_", i), <<>>)>>
    \o IF text.rotation # 0
       THEN <<Stmt(<<Tag("text_", i)>>, "rotate", Tag("text_rotated_", i), <<>>)>>
       ELSE <<>>

outputTags(filters) == [i \in 1..Len(filters) |-> filters[i].out]

\* The overlays of buildLayerOverlays, each reading the base tag instead of the
\* previous overlay's output.
RECURSIVE overlayUnchained(_, _, _)
overlayUnchained(layers, i, currentBase) ==
    IF i > Len(layers) THEN <<>>
    ELSE <<Stmt(<<currentBase, layers[i].tag>>, "overlay", Tag("layer_", i),
                <<layers[i].type, layers[i].idx>>)>>
         \o overlayUnchained(layers, i + 1, currentBase)

RECURSIVE overlayChain(_, _, _)
overlayChain(layers, i, currentBase) ==
    IF i > Len(layers) THEN <<>>
    ELSE <<Stmt(<<currentBase, layers[i].tag>>, "overlay", Tag("layer_", i),
                <<layers[i].type, layers[i].idx>>)>>
         \o overlayChain(layers, i + 1, Tag("layer_", i))

buildLayerOverlays(stickers, textOverlays, baseTag, textTags) ==
    overlayChain(sortByZ(layerList(stickers, textOverlays, textTags)), 1, baseTag)

\* The engine is called with the filter program and the pad to map.
handOver(s, chains, outputTag) ==
    [s EXCEPT !.pc = "ffmpeg", !.invoked = TRUE, !.program = chains, !.map = outputTag]

\* ImageProcessor.process / VideoProcessor.process from the return of
\* buildTextFilters to the engine invocation.
processorFinish(s) ==
    LET chains == s.filterChains \o s.textFilters
        stickerCount == Len(s.stickers)
        layerOverlays ==
            IF stickerCount > 0 \/ Len(s.textFilters) > 0
            THEN buildLayerOverlays(s.stickers, s.textOverlays, "canvas_with_content",
                                    outputTags(s.textFilters))
            ELSE <<>>
        currentOutputTag ==
            IF layerOverlays # <<>> THEN layerOverlays[Len(layerOverlays)].out
            ELSE "canvas_with_content"
    IN IF s.impl = "VideoProcessor"
       THEN handOver(s, chains \o layerOverlays
                           \o <<Stmt(<<currentOutputTag>>, "fps", "final_output", <<>>)>>,
                     "final_output")
       ELSE handOver(s, chains \o layerOverlays, currentOutputTag)

\* buildTextFilters up to the next `await resolveFontPath`, or to its return.
processorTextLoop(s) ==
    IF s.next > Len(s.textOverlays) THEN processorFinish(s)
    ELSE [s EXCEPT !.pc = "resolveFontPath",
                   !.textFilters = Append(@, textCanvasFilter(s.next))]

\* --- worker functions
workerStickerOut(impl, idx) ==
    IF impl = "processVideo" THEN Tag("base_s_", idx) ELSE "base" \o ToString(idx)

workerSticker(s, layer) ==
    [s EXCEPT !.filterChains = @ \o
                 <<Stmt(<<InputPad(2 + layer.idx - 1)>>, "sticker", Tag("s", layer.idx), <<>>),
                   Stmt(<<s.last, Tag("s", layer.idx)>>, "overlay",
                        workerStickerOut(s.impl, layer.idx), <<"sticker", layer.idx>>)>>,
              !.last = workerStickerOut(s.impl, layer.idx),
              !.next = @ + 1]

workerText(s, layer) ==
    LET rotated == s.textOverlays[layer.idx].rotation # 0
        tOut == IF rotated THEN Tag("tr", layer.idx) ELSE Tag("tt", layer.idx)
    IN [s EXCEPT !.filterChains = @ \o
                 <<Stmt(<<>>, "color", Tag("tc", layer.idx), <<>>),
                   Stmt(<<Tag("tc", layer.idx)>>, "drawtext", Tag("tt", layer.idx), <<>>)>>
                 \o (IF rotated
                     THEN <<Stmt(<<Tag("tt", layer.idx)>>, "rotate", tOut, <<>>)>>
                     ELSE <<>>)
                 \o <<Stmt(<<s.last, tOut>>, "overlay", Tag("base_t_", layer.idx),
                           <<"text", layer.idx>>)>>,
              !.last = Tag("base_t_", layer.idx),
              !.next = @ + 1]

\* The layer loop up to the next `await resolveFontPath`, or to the engine call.
RECURSIVE workerLoop(_)
workerLoop(s) ==
    IF s.next > Len(s.layers)
    THEN IF s.impl = "processVideo"
         THEN handOver(s, s.filterChains \o <<Stmt(<<s.last>>, "fps", "vout", <<>>)>>, "vout")
         ELSE handOver(s, s.filterChains, s.last)
    ELSE IF s.layers[s.next].type = "sticker"
    THEN workerLoop(workerSticker(s, s.layers[s.next]))
    ELSE [s EXCEPT !.pc = "resolveFontPath"]

\* --- steps
throw(s, message) == [s EXCEPT !.pc = "threw", !.error = message]

\* The font lookup of the text overlay in turn fails.
fontNotFoundIgnored(s) ==
    IF s.impl \in BaseProcessors
    THEN processorTextLoop([s EXCEPT !.next = @ + 1])
    ELSE workerLoop([s EXCEPT !.next = @ + 1])

fontNotFound(s) == throw(s, "Font not found")

\* A request reaches the pipeline: resolveStickerPaths / resolveStickerFiles is awaited.
SubmitScene(impl, stickers, textOverlays) ==
    /\ scene.pc = "idle"
    /\ scene' = [NoScene EXCEPT !.impl = impl, !.stickers = stickers,
                                !.textOverlays = textOverlays,
                                !.pc = "resolveStickerPaths"]
    /\ UNCHANGED <<jobVars, statusResponse, enc, geo, fmt, base>>

\* Promise.all over the sticker names settles; on success the program is built up
\* to the first font lookup.
StickersResolved ==
    /\ scene.pc = "resolveStickerPaths"
    /\ scene' =
          IF \E i \in DOMAIN scene.stickers : scene.stickers[i].name \notin stickerFiles
          THEN throw(scene, "Sticker not found")
          ELSE IF scene.impl \in BaseProcessors
          THEN processorTextLoop(
                  [scene EXCEPT !.filterChains =
                      <<buildMainContentFilter, buildCanvasOverlay>>
                      \o buildStickerFilters(scene.stickers)])
          ELSE workerLoop(
                  [scene EXCEPT !.filterChains =
                      <<Stmt(<<InputPad(1)>>, "main", "main", <<>>),
                        Stmt(<<InputPad(0), "main">>, "overlay", "base0", <<"content">>)>>,
                      !.layers = sortByZ(layerList(scene.stickers, scene.textOverlays,
                                                   [i \in DOMAIN scene.textOverlays |-> ""])),
                      !.last = "base0"])
    /\ UNCHANGED <<jobVars, statusResponse, enc, geo, fmt, base>>

\* `await resolveFontPath(...)` of the text overlay in turn settles.
FontResolved ==
    /\ scene.pc = "resolveFontPath"
    /\ scene' =
          IF scene.impl \in BaseProcessors
          THEN IF scene.textOverlays[scene.next].fontFamily \in fontFiles
               THEN processorTextLoop(
                       [scene EXCEPT !.textFilters =
                                        @ \o drawTextFilters(scene.textOverlays[scene.next],
                                                             scene.next),
                                     !.next = @ + 1])
               ELSE fontNotFound(scene)
          ELSE IF scene.textOverlays[scene.layers[scene.next].idx].fontFamily \in fontFiles
               THEN workerLoop(workerText(scene, scene.layers[scene.next]))
               ELSE fontNotFound(scene)
    /\ UNCHANGED <<jobVars, statusResponse, enc, geo, fmt, base>>

\* Any request with up to MaxStickers stickers and MaxTexts text overlays, to any of
\* the pipelines.
ReceiveScene ==
    /\ scene.pc = "idle"
    /\ \E impl \in SceneImpls, stickers \in SeqsUpTo(Stickers, MaxStickers),
           textOverlays \in SeqsUpTo(TextOverlays, MaxTexts) :
          SubmitScene(impl, stickers, textOverlays)

SceneNext ==
    \/ ReceiveScene
    \/ StickersResolved
    \/ FontResolved

SceneSpec == Init /\ [][SceneNext]_vars

\* ------------------------------------------------------- geometry helpers
\* JavaScript numbers: the finite ones as multiples of 1 / Scale, NaN and the two
\* infinities.
Num(k) == [kind |-> "finite", k |-> k]
NaN == [kind |-> "NaN", k |-> 0]
Infinity == [kind |-> "infinite", k |-> 1]
NegInfinity == [kind |-> "infinite", k |-> -1]

isNaN(a) == a.kind = "NaN"
isFinite(a) == a.kind = "finite"

\* a <= b; every comparison with NaN is false.
LessEq(a, b) ==
    IF isNaN(a) \/ isNaN(b) THEN FALSE
    ELSE IF a.kind = "infinite" THEN a.k < 0 \/ (b.kind = "infinite" /\ b.k > 0)
    ELSE IF b.kind = "infinite" THEN b.k > 0
    ELSE a.k <= b.k

\* Math.max / Math.min: NaN when an argument is NaN.
MathMax(a, b) ==
    IF isNaN(a) \/ isNaN(b) THEN NaN ELSE IF LessEq(a, b) THEN b ELSE a

MathMin(a, b) ==
    IF isNaN(a) \/ isNaN(b) THEN NaN ELSE IF LessEq(a, b) THEN a ELSE b

\* Math.round: floor(x + 0.5); NaN and the infinities are returned as they are.
MathRound(a) ==
    IF isFinite(a) THEN Num(((2 * a.k + Scale) \div (2 * Scale)) * Scale) ELSE a

\* value * total for a finite value and a whole number of pixels.
Times(a, b) == Num((a.k * b.k) \div Scale)

clamp(value, min, max) == MathMin(max, MathMax(min, value))

clampInt(value, min, max) == MathMax(min, MathMin(max, MathRound(value)))

clampFloat(value, min, max) ==
    IF isNaN(value) THEN min ELSE MathMin(max, MathMax(min, value))

toPixelsBelowOne(value, total) ==
    IF ~isFinite(value) THEN Num(0)
    ELSE IF LessEq(value, Num(Scale)) /\ value # Num(Scale) THEN Times(value, total)
    ELSE value

toPixels(value, total) ==
    IF ~isFinite(value) THEN Num(0)
    ELSE IF LessEq(value, Num(Scale)) THEN Times(value, total)
    ELSE value

\* The worker's local copy.
toPx(val, total) ==
    IF ~isFinite(val) THEN Num(0)
    ELSE IF LessEq(val, Num(Scale)) THEN Times(val, total)
    ELSE val

\* Arguments the helpers are called with: positions and sizes as pixels or as
\* ratios, missing or unparsable ones (NaN), and whole-pixel bounds and totals.
Values ==
    {Num(k) : k \in {-Scale, -1, 0, 1, Scale, Scale + 1, 2 * Scale, 2 * Scale + 1,
                     500 * Scale, 2000 * Scale}}
    \cup {NaN, Infinity, NegInfinity}
Pixels == {Num(n * Scale) : n \in {0, 1, 2, 1000, 1080}}
Ranges == {r \in Pixels \X Pixels : LessEq(r[1], r[2])}

ClampCall(value, min, max) ==
    /\ geo' = [fn |-> "clamp", args |-> <<value, min, max>>,
                result |-> clamp(value, min, max)]
    /\ UNCHANGED <<jobVars, statusResponse, enc, scene, fmt, base>>

ClampIntCall(value, min, max) ==
    /\ geo' = [fn |-> "clampInt", args |-> <<value, min, max>>,
                result |-> clampInt(value, min, max)]
    /\ UNCHANGED <<jobVars, statusResponse, enc, scene, fmt, base>>

ClampFloatCall(value, min, max) ==
    /\ geo' = [fn |-> "clampFloat", args |-> <<value, min, max>>,
                result |-> clampFloat(value, min, max)]
    /\ UNCHANGED <<jobVars, statusResponse, enc, scene, fmt, base>>

ToPixelsCall(value, total) ==
    /\ geo' = [fn |-> "toPixels", args |-> <<value, total>>,
                result |-> toPixels(value, total)]
    /\ UNCHANGED <<jobVars, statusResponse, enc, scene, fmt, base>>

ToPxCall(val, total) ==
    /\ geo' = [fn |-> "toPx", args |-> <<val, total>>, result |-> toPx(val, total)]
    /\ UNCHANGED <<jobVars, statusResponse, enc, scene, fmt, base>>

GeometryNext ==
    \/ \E value \in Values, r \in Ranges : ClampCall(value, r[1], r[2])
    \/ \E value \in Values, r \in Ranges : ClampIntCall(value, r[1], r[2])
    \/ \E value \in Values, r \in Ranges : ClampFloatCall(value, r[1], r[2])
    \/ \E value \in Values, total \in Pixels : ToPixelsCall(value, total)
    \/ \E val \in Values, total \in Pixels : ToPxCall(val, total)

GeometrySpec == Init /\ [][GeometryNext]_vars

\* ------------------------------------------------------- canvas
canvasReel == [width |-> 1080, height |-> 1920]
canvasPost == [width |-> 1080, height |-> 1350]

getCanvas(isPost) == IF isPost THEN canvasPost ELSE canvasReel

\* ------------------------------------------------------- color resolvers
\* A capture group that took no part in the match.
undefined == [kind |-> "undefined", k |-> 0]

\* The whole match, entry 0 of a match array: a text, not a number.
matched == [kind |-> "text", k |-> 0]

\* Number(m) of a match array m: its entries joined by commas are no numeric literal.
NumberOfArray(m) == IF DOMAIN m = {0} THEN m[0] ELSE NaN

clamp255(n) == MathMax(Num(0), MathMin(Num(255 * Scale), MathRound(n)))

clampAlpha(a) == MathMax(Num(0), MathMin(Num(Scale), a))

HexDigits == <<"0", "1", "2", "3", "4", "5", "6", "7", "8", "9", "a", "b", "c", "d", "e", "f">>

UpperCase == [c \in {"a", "b", "c", "d", "e", "f"} |->
                 CASE c = "a" -> "A" [] c = "b" -> "B" [] c = "c" -> "C"
                   [] c = "d" -> "D" [] c = "e" -> "E" [] c = "f" -> "F"]

\* String.prototype.toUpperCase, on a string as the sequence of its characters.
toUpperCase(s) == [i \in DOMAIN s |-> IF s[i] \in DOMAIN UpperCase THEN UpperCase[s[i]] ELSE s[i]]

\* The characters of a sequence as one string.
RECURSIVE Join(_)
Join(s) == IF s = <<>> THEN "" ELSE Head(s) \o Join(Tail(s))

\* n.toString(16) of a whole number n >= 0.
RECURSIVE toString16(_)
toString16(n) ==
    IF n < 16 THEN <<HexDigits[n + 1]>>
    ELSE toString16(n \div 16) \o <<HexDigits[(n % 16) + 1]>>

\* padStart(2, '0')
padStart2(s) == IF Len(s) < 2 THEN <<"0">> \o s ELSE s

\* n.toString(16).padStart(2, '0').toUpperCase(); NaN.toString(16) is 'NaN'.
toHex(n) ==
    IF isNaN(n) THEN Join(toUpperCase(<<"N", "a", "N">>))
    ELSE Join(toUpperCase(padStart2(toString16(n.k \div Scale))))

\* `${a}` of a number: the whole part and, unless it is zero, the fraction in tenths.
String(a) ==
    IF isNaN(a) THEN "NaN"
    ELSE IF a.k % Scale = 0 THEN ToString(a.k \div Scale)
    ELSE ToString(a.k \div Scale) \o "." \o ToString((10 * (a.k % Scale)) \div Scale)

HexChars == {HexDigits[i] : i \in DOMAIN HexDigits} \cup {"A", "B", "C", "D", "E", "F"}

\* /^#?[0-9a-fA-F]{6}$/ on the characters of the trimmed string.
hexTest(hx) ==
    LET h == IF hx # <<>> /\ Head(hx) = "#" THEN Tail(hx) ELSE hx
    IN  Len(h) = 6 /\ \A i \in DOMAIN h : h[i] \in HexChars

\* hx.replace(/^#/, '')
stripHash(hx) == IF hx # <<>> /\ Head(hx) = "#" THEN Tail(hx) ELSE hx

\* A color string is either one the rgb()/rgba() pattern matches, given by its
\* match array m (m[1..3] the components, m[4] the alpha or undefined), or one it
\* does not match, given by its trimmed characters.
rgbaToFFmpegColor(rgba) ==
    IF rgba.form = "rgba" THEN
        LET rgbaMatch == rgba.m
            r == clamp255(rgbaMatch[1])
            g == clamp255(rgbaMatch[2])
            b == clamp255(rgbaMatch[3])
            a == clampAlpha(IF rgbaMatch[4] # undefined THEN rgbaMatch[4] ELSE Num(Scale))
        IN  "0x" \o toHex(r) \o toHex(g) \o toHex(b) \o "@" \o String(a)
    ELSE IF hexTest(rgba.chars) THEN
        "0x" \o Join(toUpperCase(stripHash(rgba.chars))) \o "@1"
    ELSE "0xFFFFFF@1"

\* The workers' resolver: g, b and a are computed from the match array m itself
\* (which is never undefined inside `if (m)`), not from m[2], m[3] and m[4].
rgbaToFFColor(rgba) ==
    IF rgba.form = "rgba" THEN
        LET m == rgba.m
            r == clamp255(m[1])
            g == clamp255(NumberOfArray(m))
            b == clamp255(NumberOfArray(m))
            a == clampAlpha(NumberOfArray(m))
        IN  "0x" \o toHex(r) \o toHex(g) \o toHex(b) \o "@" \o String(a)
    ELSE IF hexTest(rgba.chars) THEN
        "0x" \o Join(toUpperCase(stripHash(rgba.chars))) \o "@1"
    ELSE "0xFFFFFF@1"

ColorImpls == {"rgbaToFFmpegColor", "rgbaToFFColor"}

resolveColor(impl, rgba) ==
    IF impl = "rgbaToFFmpegColor" THEN rgbaToFFmpegColor(rgba) ELSE rgbaToFFColor(rgba)

\* Components and alphas the pattern [\d.]+ can capture: 0, 127.5 (or the nearest
\* multiple of 1 / Scale), 255, 300; alpha absent, 0, 1 / Scale, 1, 2.
Components == {Num(0), Num(255), Num(255 * Scale), Num(300 * Scale)}
Alphas == {undefined, Num(0), Num(1), Num(Scale), Num(2 * Scale)}

Rgba(r, g, b, a) ==
    [form |-> "rgba", m |-> [i \in 0..4 |-> <<matched, r, g, b, a>>[i + 1]], chars |-> <<>>]

PlainText(chars) == [form |-> "text", m |-> [i \in 0..4 |-> undefined], chars |-> chars]

\* Strings the rgb()/rgba() pattern does not match: hex values and others.
PlainColors ==
    {PlainText(<<"f", "f", "0", "0", "0", "0">>),
     PlainText(<<"#", "0", "0", "F", "f", "7", "f">>),
     PlainText(<<"#", "f", "0", "0">>),
     PlainText(<<"r", "e", "d">>),
     PlainText(<<>>)}

Colors ==
    {Rgba(r, g, b, a) : r \in Components, g \in Components, b \in Components, a \in Alphas}
    \cup PlainColors

ResolveColor(impl, rgba) ==
    /\ fmt' = [fn |-> impl, args |-> <<rgba>>, result |-> resolveColor(impl, rgba)]
    /\ UNCHANGED <<jobVars, statusResponse, enc, scene, geo, base>>

\* ------------------------------------------------------- text escapers
\* A text is the sequence of its characters, with each match of the line-break
\* pattern /<br\s*\/?>/gi as one entry "<br>".
TextTokens == {"a", "\\", "%", ":", "'", "\n", "<br>"}

\* text.replace(/c/g, replacement) for a one-entry pattern c.
RECURSIVE replace(_, _, _)
replace(text, c, replacement) ==
    IF text = <<>> THEN <<>>
    ELSE (IF Head(text) = c THEN replacement ELSE <<Head(text)>>)
         \o replace(Tail(text), c, replacement)

escapeText(text) ==
    LET s1 == replace(text, "\\", <<"\\", "\\">>)
        s2 == replace(s1, "%", <<"\\", "%">>)
        s3 == replace(s2, ":", <<"\\", ":">>)
        s4 == replace(s3, "'", <<"'", "\\", "\\", "'", "'">>)
    IN  replace(s4, "<br>", <<"\\", "n">>)

prepareText(raw) ==
    LET normalized == replace(raw, "<br>", <<"\n">>)
        s1 == replace(normalized, "\\", <<"\\", "\\">>)
        s2 == replace(s1, "%", <<"\\", "%">>)
        s3 == replace(s2, ":", <<"\\", ":">>)
        s4 == replace(s3, "'", <<"'", "\\", "'", "'">>)
    IN  replace(s4, "\n", <<"\n">>)

EscaperImpls == {"escapeText", "prepareText"}

escape(impl, text) == IF impl = "escapeText" THEN escapeText(text) ELSE prepareText(text)

EscapeText(impl, text) ==
    /\ fmt' = [fn |-> impl, args |-> <<text>>, result |-> escape(impl, text)]
    /\ UNCHANGED <<jobVars, statusResponse, enc, scene, geo, base>>

\* ------------------------------------------------------- quality tiers
\* Number(v): NaN for undefined.
ToNumber(v) == IF v = undefined THEN NaN ELSE v

\* a >= b; every comparison with NaN is false.
GreaterEq(a, b) == LessEq(b, a)

\* The tiers with the upper one starting above 90 instead of at 90.
crfAbove(quality) ==
    IF GreaterEq(quality, Num(90 * Scale)) /\ quality # Num(90 * Scale) THEN 18
    ELSE IF GreaterEq(quality, Num(80 * Scale)) THEN 20 ELSE 23

\* The software encoders' -crf.
crf(quality) ==
    IF GreaterEq(quality, Num(90 * Scale)) THEN 18
    ELSE IF GreaterEq(quality, Num(80 * Scale)) THEN 20 ELSE 23

\* The hardware encoder's -cq.
cq(quality) ==
    IF GreaterEq(quality, Num(90 * Scale)) THEN 19
    ELSE IF GreaterEq(quality, Num(80 * Scale)) THEN 21 ELSE 24

\* VideoProcessor.process limits request.output.quality to 1..100 before it calls
\* tryVideoEncoding; processVideo reads meta.output.quality, 90 when it is absent.
qualityOf(impl, quality) ==
    IF impl = "VideoProcessor"
    THEN MathMax(Num(Scale), MathMin(Num(100 * Scale), ToNumber(quality)))
    ELSE ToNumber(IF quality = undefined THEN Num(90 * Scale) ELSE quality)

\* output.quality: 1..100 around the tier limits, or absent.
Qualities ==
    {Num(k) : k \in {Scale, 79 * Scale, 80 * Scale - 1, 80 * Scale, 89 * Scale,
                     90 * Scale - 1, 90 * Scale, 100 * Scale}}
    \cup {undefined}

EncodingParameters(impl, quality) ==
    /\ fmt' = [fn |-> impl, args |-> <<quality>>,
               result |-> [crf |-> crf(qualityOf(impl, quality)),
                           cq |-> cq(qualityOf(impl, quality))]]
    /\ UNCHANGED <<jobVars, statusResponse, enc, scene, geo, base>>

\* ------------------------------------------------------- font size
\* A quotient of whole numbers, as the scale factor is one.
Ratio(n, d) == [num |-> n, den |-> d]

RatioMin(a, b) == IF a.num * b.den <= b.num * a.den THEN a ELSE b

\* The font size with the scaled size rounded up instead of down.
calculateFontSizeCeil(boxWidth, canvasHeight) ==
    LET scaleFactor == RatioMin(Ratio(boxWidth.k, 400 * Scale), Ratio(canvasHeight, 200))
    IN  MathMax(Num(8 * Scale),
                Num(((24 * scaleFactor.num + scaleFactor.den - 1) \div scaleFactor.den) * Scale))

\* Math.max(8, Math.floor(24 * Math.min(boxWidth / 400, canvasHeight / 200))) for
\* a whole number of pixels boxWidth.
calculateFontSize(boxWidth, canvasHeight) ==
    LET scaleFactor == RatioMin(Ratio(boxWidth.k, 400 * Scale), Ratio(canvasHeight, 200))
    IN  MathMax(Num(8 * Scale), Num(((24 * scaleFactor.num) \div scaleFactor.den) * Scale))

\* Number(v) || 0
numberOrZero(v) ==
    IF isNaN(ToNumber(v)) \/ ToNumber(v) = Num(0) THEN Num(0) ELSE ToNumber(v)

\* boxWidth of buildTextFilters, rawBoxW of the workers.
boxWidthOf(impl, width, canvas) ==
    IF impl \in BaseProcessors
    THEN MathMax(Num(Scale), MathRound(toPixels(width, Num(canvas.width * Scale))))
    ELSE MathMax(Num(Scale), MathRound(toPx(numberOrZero(width), Num(canvas.width * Scale))))

fontSize(impl, width, canvas) ==
    calculateFontSize(boxWidthOf(impl, width, canvas), canvas.height)

\* The widths of text overlays: the values of the geometry helpers and widths at
\* and around the baseline box.
Widths ==
    Values \cup {Num(k) : k \in {50 * Scale, 399 * Scale + 1, 400 * Scale, 401 * Scale,
                                 800 * Scale, 3000 * Scale}}

FontSize(impl, width, isPost) ==
    /\ fmt' = [fn |-> "calculateFontSize", args |-> <<impl, width, getCanvas(isPost)>>,
               result |-> fontSize(impl, width, getCanvas(isPost))]
    /\ UNCHANGED <<jobVars, statusResponse, enc, scene, geo, base>>

\* ------------------------------------------------------- formatting helpers
FormatNext ==
    \/ \E impl \in ColorImpls, rgba \in Colors : ResolveColor(impl, rgba)
    \/ \E impl \in EscaperImpls, text \in SeqsUpTo(TextTokens, MaxTextLen) :
          EscapeText(impl, text)
    \/ \E impl \in EncoderImpls, quality \in Qualities : EncodingParameters(impl, quality)
    \/ \E impl \in SceneImpls, width \in Widths, isPost \in BOOLEAN :
          FontSize(impl, width, isPost)

FormatSpec == Init /\ [][FormatNext]_vars

\* ------------------------------------------------------- base composite
\* A number in a condition: undefined, NaN and 0 count as false.
Truthy(n) == n.kind \notin {"undefined", "NaN"} /\ ~(isFinite(n) /\ n.k = 0)

\* typeof n === "number"
isNumber(n) == n.kind # "undefined"

\* A destructuring default: `{ x = 0 }`.
orDefault(n, d) == IF n = undefined THEN d ELSE n

\* String.prototype.trim, on a string as the sequence of its characters.
RECURSIVE trimStart(_)
trimStart(s) == IF s # <<>> /\ Head(s) = " " THEN trimStart(Tail(s)) ELSE s

RECURSIVE trimEnd(_)
trimEnd(s) ==
    IF s # <<>> /\ s[Len(s)] = " " THEN trimEnd(SubSeq(s, 1, Len(s) - 1)) ELSE s

trim(s) == trimEnd(trimStart(s))

\* One step of the main-content statement: `name=args:option`, or the caller's
\* filter string as the option of an "ffmpeg" step.
Step(name, args, option) == [step |-> name, args |-> args, option |-> option]

cropStep(crop) ==
    Step("crop", <<MathRound(crop.width), MathRound(crop.height),
                   MathRound(orDefault(crop.x, Num(0))),
                   MathRound(orDefault(crop.y, Num(0)))>>, "")

rotateStep(rotation) == Step("rotate", <<rotation>>, "ow=rotw(iw):oh=roth(ih)")

scaleStep(width, height) ==
    Step("scale", <<MathRound(width), MathRound(height)>>, "flags=bicubic")

coverSteps(canvas) ==
    <<Step("scale", <<Num(canvas.width * Scale), Num(canvas.height * Scale)>>,
           "force_original_aspect_ratio=increase"),
      Step("crop", <<Num(canvas.width * Scale), Num(canvas.height * Scale)>>, "")>>

\* filters.ffmpeg, pushed as it is.
ffmpegStep(ffmpeg) == Step("ffmpeg", <<>>, Join(ffmpeg.chars))

\* The steps of BaseProcessor.buildMainContentFilter, written in front of the crop
\* step instead of behind the scale step.
stepsFilterFirst(request, canvas) ==
    LET content == request.content
        filters == request.filters
    IN  (IF filters.ffmpeg.given /\ trim(filters.ffmpeg.chars) # <<>>
         THEN <<ffmpegStep(filters.ffmpeg)>> ELSE <<>>)
        \o (IF Truthy(content.crop.width) /\ Truthy(content.crop.height)
            THEN <<cropStep(content.crop)>> ELSE <<>>)
        \o (IF Truthy(content.rotation) /\ content.rotation # Num(0)
            THEN <<rotateStep(content.rotation)>> ELSE <<>>)
        \o (IF Truthy(content.size.width) /\ Truthy(content.size.height)
            THEN <<scaleStep(content.size.width, content.size.height)>>
            ELSE coverSteps(canvas))

\* The steps of BaseProcessor.buildMainContentFilter.
steps(request, canvas) ==
    LET content == request.content
        filters == request.filters
    IN  (IF Truthy(content.crop.width) /\ Truthy(content.crop.height)
         THEN <<cropStep(content.crop)>> ELSE <<>>)
        \o (IF Truthy(content.rotation) /\ content.rotation # Num(0)
            THEN <<rotateStep(content.rotation)>> ELSE <<>>)
        \o (IF Truthy(content.size.width) /\ Truthy(content.size.height)
            THEN <<scaleStep(content.size.width, content.size.height)>>
            ELSE coverSteps(canvas))
        \o (IF filters.ffmpeg.given /\ trim(filters.ffmpeg.chars) # <<>>
            THEN <<ffmpegStep(filters.ffmpeg)>> ELSE <<>>)

\* The width and height of clampBoxToCanvas.
clampBoxToCanvas(w, h, canvasW, canvasH) ==
    [width |-> clampInt(w, Num(Scale), Num(canvasW * Scale)),
     height |-> clampInt(h, Num(Scale), Num(canvasH * Scale))]

\* The steps of the workers' main statement.
mainSteps(meta, canvas) ==
    LET content == meta.content
        filters == meta.filters
        sized == isNumber(content.size.width) /\ isNumber(content.size.height)
        clamped == clampBoxToCanvas(MathRound(content.size.width),
                                    MathRound(content.size.height),
                                    canvas.width, canvas.height)
    IN  (IF Truthy(content.crop.width) /\ Truthy(content.crop.height)
         THEN <<cropStep(content.crop)>> ELSE <<>>)
        \o (IF Truthy(content.rotation)
            THEN <<rotateStep(content.rotation)>> ELSE <<>>)
        \o (IF sized THEN <<scaleStep(clamped.width, clamped.height)>>
            ELSE coverSteps(canvas))
        \o (IF filters.ffmpeg.given /\ trim(filters.ffmpeg.chars) # <<>>
            THEN <<ffmpegStep(filters.ffmpeg)>> ELSE <<>>)

\* A number as a filter statement carries it: num / den.
\* toExpression / toExpr: String(n) of a whole number, n.toFixed(4) otherwise.
toExpression(value) ==
    IF value.k % Scale = 0 THEN [num |-> value.k \div Scale, den |-> 1]
    ELSE [num |-> (2 * 10000 * value.k + Scale) \div (2 * Scale), den |-> 10000]

\* `${x}` of a finite number: a decimal that reads back as x.
templateNumber(x) == [num |-> x.k, den |-> Scale]

\* BaseProcessor.buildCanvasOverlay: the x:y of the statement.
canvasOverlay(request, canvas) ==
    LET content == request.content
        x == clampFloat(content.position.x, Num(0), Num(canvas.width * Scale))
        y == clampFloat(content.position.y, Num(0), Num(canvas.height * Scale))
    IN  [x |-> toExpression(x), y |-> toExpression(y), shortest |-> FALSE]

\* The statement VideoProcessor.process writes itself.
videoCanvasOverlay(request) ==
    LET content == request.content
        x == content.position.x
        y == content.position.y
    IN  [x |-> templateNumber(x), y |-> templateNumber(y), shortest |-> TRUE]

\* The workers' main overlay.
mainOverlay(impl, meta, canvas) ==
    LET content == meta.content
        rawX == IF isNumber(content.position.x) THEN content.position.x ELSE Num(0)
        rawY == IF isNumber(content.position.y) THEN content.position.y ELSE Num(0)
        mainOX == clampFloat(rawX, Num(0), Num(canvas.width * Scale))
        mainOY == clampFloat(rawY, Num(0), Num(canvas.height * Scale))
    IN  [x |-> toExpression(mainOX), y |-> toExpression(mainOY),
         shortest |-> (impl = "processVideo")]

\* The requests' content: positions as the schema admits them (numbers >= 0), the
\* optional crop, rotation, size and filter string.
Coordinates == {Num(0), Num(1), Num(1080 * Scale), Num(2000 * Scale)}
NoCrop == [x |-> undefined, y |-> undefined, width |-> undefined, height |-> undefined]
Crops ==
    {NoCrop,
     [NoCrop EXCEPT !.width = Num(100 * Scale)],
     [NoCrop EXCEPT !.height = Num(100 * Scale)],
     [NoCrop EXCEPT !.width = Num(100 * Scale + 1), !.height = Num(50 * Scale)],
     [x |-> Num(10 * Scale + 1), y |-> Num(0), width |-> Num(100 * Scale),
      height |-> Num(50 * Scale)]}
ContentRotations == {Num(0), Num(90 * Scale)}
Sizes ==
    {[width |-> undefined, height |-> undefined],
     [width |-> Num(400 * Scale + 1), height |-> Num(300 * Scale)],
     [width |-> Num(2000 * Scale), height |-> Num(2000 * Scale)]}
FilterStrings ==
    {[given |-> FALSE, chars |-> <<>>],
     [given |-> TRUE, chars |-> <<>>],
     [given |-> TRUE, chars |-> <<" ">>],
     [given |-> TRUE, chars |-> <<"hue=s=0">>],
     [given |-> TRUE, chars |-> <<" ", "eq=gamma=1.2", " ">>]}

Requests ==
    [content : [position : [x : Coordinates, y : Coordinates], crop : Crops,
                rotation : ContentRotations, size : Sizes],
     filters : [ffmpeg : FilterStrings],
     post : BOOLEAN]

\* The first two statements of the program: the main-content statement and the
\* overlay of its pad onto the canvas.
compileBase(impl, request) ==
    LET canvas == getCanvas(request.post)
    IN  [impl |-> impl, request |-> request,
         steps |-> IF impl \in BaseProcessors THEN steps(request, canvas)
                   ELSE mainSteps(request, canvas),
         overlay |-> IF impl = "ImageProcessor" THEN canvasOverlay(request, canvas)
                     ELSE IF impl = "VideoProcessor" THEN videoCanvasOverlay(request)
                     ELSE mainOverlay(impl, request, canvas)]

ReceiveContent ==
    /\ base.impl = "none"
    /\ \E impl \in SceneImpls, request \in Requests : base' = compileBase(impl, request)
    /\ UNCHANGED <<jobVars, statusResponse, enc, scene, geo, fmt>>

BaseNext == ReceiveContent

BaseSpec == Init /\ [][BaseNext]_vars

\* ------------------------------------------------------- properties
PhaseIndexes(seq, phases) == {i \in 1..Len(seq) : seq[i].phase \in phases}

\* The position of the job's terminal event in its history; 0 before it.
TermIndex(j) ==
    IF PhaseIndexes(events[j], completionStates) = {} THEN 0
    ELSE CHOOSE i \in PhaseIndexes(events[j], completionStates) :
            \A k \in PhaseIndexes(events[j], completionStates) : i <= k

\* Request c is an observer of job j whose detach handling has not run.
Attached(c, j) ==
    /\ conns[c].status = "open"
    /\ conns[c].jobId = j
    /\ ~conns[c].closed
    /\ ~conns[c].errored

\* Request c was attached when its job emitted the terminal event.
AttachedAtTermination(c) ==
    LET t == TermIndex(conns[c].jobId)
    IN /\ conns[c].status = "open"
       /\ t > 0
       /\ conns[c].attachedAt < t
       /\ (conns[c].closed \/ conns[c].errored) => conns[c].detachedAt >= t

TypeIndexes(seq, type) == {i \in 1..Len(seq) : seq[i].type = type}

\* C1: once a job's state is COMPLETED or FAILED, no later step changes the state
\* the status query returns for it (while it is in the job table).
C1_TerminalAbsorbing ==
    [][\A j \in JobIds :
          (j \in jobState /\ jobs[j].state \in completionStates /\ j \in jobState')
              => getJobStatusByIds({j})' = getJobStatusByIds({j})]_vars

\* C2: when addJob returns, the status query yields QUEUED for the new id.
C2_AddJobReturnsQueued ==
    [][\A uid \in JobIds :
          (nextUid = uid /\ nextUid' = uid + 1)
              => getJobStatusByIds({uid})' = (uid :> "QUEUED")]_vars

\* C3: the COMPLETED state and the COMPLETED-phase event occur only after a
\* PROCESSING-phase "Job started" event of the same job.
C3_CompletedOnlyAfterStarted ==
    \A j \in JobIds :
        LET started == {i \in 1..Len(events[j]) :
                           events[j][i] = [phase |-> "PROCESSING", message |-> "Job started"]}
        IN /\ jobs[j].state = "COMPLETED" => started # {}
           /\ \A k \in PhaseIndexes(events[j], {"COMPLETED"}) :
                  \E i \in started : i < k

C3_Witness == \E j \in JobIds : jobs[j].state = "COMPLETED"

\* C4: a job whose processing threw, or whose type has no processor, has exactly
\* one FAILED-phase event, carrying the error message, and no COMPLETED-phase event.
C4_ExactlyOneFailedEvent ==
    \A j \in JobIds :
        (task[j].pc = "done" /\ (task[j].error # "" \/ jobs[j].jobData \notin jobProcessorMap))
            => /\ Cardinality(PhaseIndexes(events[j], {"FAILED"})) = 1
               /\ PhaseIndexes(events[j], {"COMPLETED"}) = {}
               /\ \A i \in PhaseIndexes(events[j], {"FAILED"}) :
                      events[j][i].message =
                          IF jobs[j].jobData \in jobProcessorMap
                          THEN "Job failed: " \o task[j].error
                          ELSE "No processor found for job type"

C4_Witness ==
    \E j \in JobIds :
        /\ task[j].error = "FFmpeg exited with code: 1"
        /\ cp[j].status = "closed"
        /\ Len(events[j]) > TermIndex(j)

\* C5: an observer attached when the job terminates is sent the terminal event
\* exactly once.
C5_TerminalEventExactlyOnce ==
    \A c \in ConnIds :
        AttachedAtTermination(c)
            => Cardinality(PhaseIndexes(conns[c].sent, completionStates)) = 1

\* C6: a completion-type event is the last thing written to a connection, and the
\* connection is ended with it: no progress or heartbeat event follows it.
C6_NothingAfterCompletion ==
    \A c \in ConnIds :
        \A i \in TypeIndexes(conns[c].sent, "completion") :
            /\ i = Len(conns[c].sent)
            /\ conns[c].ended

\* A connection that got its completion event, whose listeners are still attached
\* while the job emitted a later event and a heartbeat tick came due.
C6_Witness ==
    \E c \in ConnIds :
        /\ TypeIndexes(conns[c].sent, "completion") # {}
        /\ Attached(c, conns[c].jobId)
        /\ Len(events[conns[c].jobId]) > TermIndex(conns[c].jobId)
        /\ jobs[conns[c].jobId].progressStream # <<>>
        /\ conns[c].beats > Cardinality(TypeIndexes(conns[c].sent, "heartbeat"))

\* C7: a job record leaves the table only by the detach of the last attached
\* observer while the job is terminal.
C7_FreedOnlyByLastDetach ==
    [][\A j \in JobIds :
          (j \in jobState /\ j \notin jobState')
              => /\ jobs[j].state \in completionStates
                 /\ \E c \in ConnIds :
                       /\ Attached(c, j)
                       /\ ~Attached(c, j)'
                       /\ \A d \in ConnIds \ {c} : ~Attached(d, j)]_vars

\* C8: every attached observer whose connection is not ended has been sent, as a
\* progress event, every event its job emitted since it attached.
C8_FanOutDelivery ==
    \A c \in ConnIds :
        (Attached(c, conns[c].jobId) /\ ~conns[c].ended)
            => Cardinality(TypeIndexes(conns[c].sent, "progress"))
                   = Len(events[conns[c].jobId]) - conns[c].attachedAt

\* The service has no step of its own left for job j: no I/O completion or child
\* process event is pending and no ended response awaits its request's 'close'.
\* Only a new request or a client disconnect can change the state.
Quiescent(j) ==
    /\ ~ENABLED FanoutJobStep(j)
    /\ \A c \in ConnIds : conns[c].jobId = j => ~ENABLED ServerClose(c)

\* C9: a finished job with no attached observer is eventually removed from the
\* job table: at the latest when the service has no step left to take for it.
C9_EventuallyFreed ==
    \A j \in JobIds :
        (task[j].pc = "done" /\ Quiescent(j) /\ \A c \in ConnIds : ~Attached(c, j))
            => j \notin jobState

\* C10: every accepted connection of a finished job eventually gets a
\* completion-type event and is ended by the server, unless the client left: at the
\* latest when the service has no step left to take for the job.
C10_EventuallyCompletionSent ==
    \A c \in ConnIds :
        (conns[c].status = "open" /\ task[conns[c].jobId].pc = "done"
           /\ Quiescent(conns[c].jobId))
            => \/ TypeIndexes(conns[c].sent, "completion") # {} /\ conns[c].ended
               \/ conns[c].closed /\ ~conns[c].ended

\* C11: a status request for a non-empty id list is answered 200 with exactly the
\* entries of the requested ids that are in the job table, each with the job's
\* stored state (unknown ids are omitted, no error), and answering it leaves the job
\* table, every job's state and every progress stream unchanged.
C11_StatusQueryReadOnly ==
    [][statusResponse' # statusResponse =>
          LET r == statusResponse'
              known == idsOf(r.ids) \cap jobState
          IN /\ r.ids # <<>> =>
                   /\ r.status = "200"
                   /\ DOMAIN r.data = known
                   /\ \A id \in known : r.data[id] = jobs[id].state
             /\ UNCHANGED <<jobState, jobs, task, dl, cp, events, conns, nextUid>>]_vars

\* A request naming a known job that is being observed, and an unknown id.
C11_Witness ==
    /\ statusResponse.status = "200"
    /\ \E id \in idsOf(statusResponse.ids) : id \notin jobState
    /\ \E id \in idsOf(statusResponse.ids) :
          /\ id \in jobState
          /\ id \in DOMAIN statusResponse.data
          /\ jobs[id].progressStream # <<>>

\* C12: the state label the status query returns for a job in the job table is one
\* of the four lifecycle labels QUEUED, RUNNING, COMPLETED, FAILED.
C12_StateIsLifecycleLabel ==
    \A j \in jobState :
        getJobStatusByIds({j})[j] \in {"QUEUED", "RUNNING", "COMPLETED", "FAILED"}

\* The place in the profile order of the i-th invocation of the encoding run.
EncCallIndex(i) == ProfileIndex(enc.calls[i].profile)

EncFailed(i) == enc.calls[i].outcome \notin {"pending", "exit 0"}

\* C13: the profiles are invoked in the fixed order hardware, software with audio
\* copy, software with re-encoded audio (starting at the hardware profile when it is
\* configured, at the second otherwise); when profiles 1 and 2 fail and profile 3
\* succeeds the selector reports success and the successful invocation is profile
\* 3; and no profile is invoked after the first successful invocation.
C13_FallbackOrder ==
    /\ Len(enc.calls) > 0 =>
          enc.calls[1].profile = IF enc.useNvenc THEN Profiles[1] ELSE Profiles[2]
    /\ \A i \in 1..(Len(enc.calls) - 1) : EncCallIndex(i + 1) = EncCallIndex(i) + 1
    /\ \A i \in DOMAIN enc.calls : enc.calls[i].outcome = "exit 0" => i = Len(enc.calls)
    /\ (/\ Len(enc.calls) = Len(Profiles)
        /\ EncFailed(1)
        /\ EncFailed(2)
        /\ enc.calls[Len(Profiles)].outcome = "exit 0")
          => /\ enc.success
             /\ enc.error \in {"", "ENOENT: stat"}
             /\ enc.calls[Len(enc.calls)].profile = Profiles[Len(Profiles)]

C13_Witness ==
    /\ enc.impl = "VideoProcessor"
    /\ Len(enc.calls) = Len(Profiles)
    /\ enc.calls[1].outcome = "exit 1"
    /\ enc.calls[2].outcome = "exit 1"
    /\ enc.calls[Len(Profiles)].outcome = "exit 0"
    /\ enc.success

\* C14: within one encoding run every profile is invoked at most once, and a
\* failed invocation (nonzero exit, spawn error, kill by the timeout) of a profile
\* that is not the last is followed by the invocation of the next profile.
C14_NoRetryAndAdvance ==
    /\ \A i, k \in DOMAIN enc.calls : i # k => enc.calls[i].profile # enc.calls[k].profile
    /\ \A i \in DOMAIN enc.calls :
          (EncFailed(i) /\ EncCallIndex(i) < Len(Profiles))
              => /\ i < Len(enc.calls)
                 /\ enc.calls[i + 1].profile = Profiles[EncCallIndex(i) + 1]

\* The hardware profile was killed by the timeout, the second could not be spawned,
\* and the third is running.
C14_Witness ==
    /\ Len(enc.calls) = Len(Profiles)
    /\ enc.calls[1].outcome = "timed out"
    /\ enc.calls[2].outcome = "spawn ENOENT"
    /\ enc.calls[Len(Profiles)].outcome = "pending"

EngineInputs == {InputPad(n) : n \in 0..(1 + Len(scene.stickers))}

PadsRead(program) ==
    UNION {{program[k].reads[r] : r \in DOMAIN program[k].reads} : k \in DOMAIN program}

\* C16: in the filter program handed to the engine, every pad a statement reads
\* is an engine input stream or was produced by an earlier statement, and exactly
\* one produced pad is read by no statement: the declared output pad.
C16_ValidSingleTerminalGraph ==
    scene.invoked =>
        LET P == scene.program
        IN /\ \A k \in DOMAIN P : \A r \in DOMAIN P[k].reads :
                  P[k].reads[r] \in EngineInputs \cup {P[i].out : i \in 1..(k - 1)}
           /\ {P[i].out : i \in DOMAIN P} \ PadsRead(P) = {scene.map}

\* The layer overlay steps of a program, in the order they are emitted.
LayerOverlaySteps(program) ==
    SelectSeq(program, LAMBDA st : st.op = "overlay" /\ st.position # <<"content">>)

\* The layer whose position an overlay step uses: its z and its place in the
\* declaration order (stickers in list order, then text overlays in list order).
StepZ(st) ==
    IF st.position[1] = "sticker" THEN scene.stickers[st.position[2]].z
    ELSE scene.textOverlays[st.position[2]].z

StepDeclared(st) ==
    IF st.position[1] = "sticker" THEN st.position[2]
    ELSE Len(scene.stickers) + st.position[2]

\* C17: there is one overlay step per layer, the steps are emitted in ascending z,
\* and steps of layers with equal z are in declaration order.
C17_StableZOrder ==
    scene.invoked =>
        LET O == LayerOverlaySteps(scene.program)
        IN /\ Len(O) = Len(scene.stickers) + Len(scene.textOverlays)
           /\ \A i \in 1..(Len(O) - 1) :
                  \/ StepZ(O[i]) < StepZ(O[i + 1])
                  \/ StepZ(O[i]) = StepZ(O[i + 1]) /\ StepDeclared(O[i]) < StepDeclared(O[i + 1])

\* The layers z=[5,3,5,1] (two stickers, then two text overlays) are overlaid in
\* the order 1, 3, 5 (first), 5 (second).
C17_Witness ==
    /\ scene.invoked
    /\ [i \in DOMAIN scene.stickers |-> scene.stickers[i].z] = <<5, 3>>
    /\ [i \in DOMAIN scene.textOverlays |-> scene.textOverlays[i].z] = <<5, 1>>
    /\ [i \in DOMAIN LayerOverlaySteps(scene.program) |->
           LayerOverlaySteps(scene.program)[i].position]
         = <<<<"text", 2>>, <<"sticker", 2>>, <<"sticker", 1>>, <<"text", 1>>>>

Unresolvable ==
    \/ \E i \in DOMAIN scene.stickers : scene.stickers[i].name \notin stickerFiles
    \/ \E i \in DOMAIN scene.textOverlays : scene.textOverlays[i].fontFamily \notin fontFiles

\* C18: for a request with an unresolvable sticker name or font the engine is never
\* invoked and no filter program is handed over; the build ends by throwing.
C18_NoPartialProgram ==
    (scene.pc # "idle" /\ Unresolvable)
        => /\ ~scene.invoked
           /\ scene.program = <<>>
           /\ scene.pc \in {"resolveStickerPaths", "resolveFontPath", "threw"}
           /\ scene.pc = "threw" => scene.error \in {"Sticker not found", "Font not found"}

\* A build that failed at the font of the second text overlay, with the statements
\* of the first already built.
C18_Witness ==
    /\ scene.pc = "threw"
    /\ scene.error = "Font not found"
    /\ Len(scene.textFilters) + Len(scene.filterChains) > 3
    /\ ~scene.invoked

\* C19: for every value and every min <= max, the result of clamp, clampInt and
\* clampFloat lies within [min, max], the result of clampInt is a whole number, and
\* clampFloat returns min for NaN.
C19_ClampWithinBounds ==
    geo.fn \in {"clamp", "clampInt", "clampFloat"} =>
        LET value == geo.args[1]
            min == geo.args[2]
            max == geo.args[3]
        IN /\ LessEq(min, geo.result)
           /\ LessEq(geo.result, max)
           /\ geo.fn = "clampInt" => isFinite(geo.result) /\ geo.result.k % Scale = 0
           /\ (geo.fn = "clampFloat" /\ isNaN(value)) => geo.result = min

\* C20: toPixels(v, total) (and the worker's toPx) is v * total for a finite
\* v <= 1, v for a finite v > 1, and 0 for NaN and the infinities.
C20_ToPixels ==
    geo.fn \in {"toPixels", "toPx"} =>
        LET v == geo.args[1]
            total == geo.args[2]
        IN /\ (v.kind = "finite" /\ v.k <= Scale) =>
                  geo.result.kind = "finite" /\ geo.result.k * Scale = v.k * total.k
           /\ (v.kind = "finite" /\ v.k > Scale) => geo.result = v
           /\ v.kind # "finite" => geo.result = Num(0)

\* 0.5 of 1000 is 500.
C20_Witness ==
    /\ geo.fn = "toPixels"
    /\ isFinite(geo.args[1])
    /\ 2 * geo.args[1].k = Scale
    /\ geo.args[2] = Num(1000 * Scale)
    /\ geo.result = Num(500 * Scale)

\* C21: every color resolver maps rgba(r,g,b,a) to 0xRRGGBB@a, with r, g and b
\* each taken from its own component, rounded and clamped to 0..255, and a clamped
\* to 0..1 (1 when absent); it maps a 6-digit hex value to 0xRRGGBB@1 and any
\* other input to opaque white 0xFFFFFF@1.
UpperHex == <<"0", "1", "2", "3", "4", "5", "6", "7", "8", "9", "A", "B", "C", "D", "E", "F">>

HexByte(n) == UpperHex[(n \div 16) + 1] \o UpperHex[(n % 16) + 1]

Channel(c) ==
    LET n == (2 * c.k + Scale) \div (2 * Scale)
    IN  IF n < 0 THEN 0 ELSE IF n > 255 THEN 255 ELSE n

AlphaOf(a) ==
    IF a = undefined THEN Num(Scale)
    ELSE IF a.k < 0 THEN Num(0) ELSE IF a.k > Scale THEN Num(Scale) ELSE a

ColorAsStated(rgba) ==
    IF rgba.form = "rgba" THEN
        "0x" \o HexByte(Channel(rgba.m[1])) \o HexByte(Channel(rgba.m[2]))
             \o HexByte(Channel(rgba.m[3])) \o "@" \o String(AlphaOf(rgba.m[4]))
    ELSE IF hexTest(rgba.chars) THEN
        "0x" \o Join(toUpperCase(stripHash(rgba.chars))) \o "@1"
    ELSE "0xFFFFFF@1"

C21_ColorResolved ==
    fmt.fn \in ColorImpls => fmt.result = ColorAsStated(fmt.args[1])

\* C22: every text escaper turns each backslash into two backslashes, each percent
\* into backslash-percent, each colon into backslash-colon, each single quote into
\* the four characters '\'' and each line-break token into one literal newline,
\* and leaves every other character as it is.
CharAsStated(c) ==
    CASE c = "\\" -> <<"\\", "\\">>
      [] c = "%" -> <<"\\", "%">>
      [] c = ":" -> <<"\\", ":">>
      [] c = "'" -> <<"'", "\\", "'", "'">>
      [] c = "<br>" -> <<"\n">>
      [] OTHER -> <<c>>

RECURSIVE TextAsStated(_)
TextAsStated(text) ==
    IF text = <<>> THEN <<>> ELSE CharAsStated(Head(text)) \o TextAsStated(Tail(text))

C22_TextEscaped ==
    fmt.fn \in EscaperImpls => fmt.result = TextAsStated(fmt.args[1])

\* C23: for every scene, of video and of still kind alike, the x and y written
\* into the statement that overlays the main content onto the canvas lie within
\* [0, canvas width] and [0, canvas height].
WithinCanvas(n, dimension) == 0 <= n.num /\ n.num <= dimension * n.den

C23_ContentPositionClamped ==
    base.impl # "none" =>
        /\ WithinCanvas(base.overlay.x, getCanvas(base.request.post).width)
        /\ WithinCanvas(base.overlay.y, getCanvas(base.request.post).height)

\* The pad the code builds last for a layer: the sticker's pad, the text overlay's
\* rotated pad when its rotation is nonzero and its drawn-text pad otherwise.
OwnPad(type, idx) ==
    IF type = "sticker"
    THEN IF scene.impl \in BaseProcessors THEN Tag("sticker_", idx) ELSE Tag("s", idx)
    ELSE IF scene.textOverlays[idx].rotation # 0
    THEN IF scene.impl \in BaseProcessors THEN Tag("text_rotated_", idx) ELSE Tag("tr", idx)
    ELSE IF scene.impl \in BaseProcessors THEN Tag("text_", idx) ELSE Tag("tt", idx)

\* C24: each layer's overlay step reads the final pad produced for the layer whose
\* position it uses: the step of sticker i reads the pad built from input stream
\* 2+i (i counted from 0), the step of text overlay i reads its own rotated pad
\* when its rotation is nonzero and its own drawn-text pad otherwise.
C24_OverlayReadsOwnPad ==
    scene.invoked =>
        LET P == scene.program
            O == LayerOverlaySteps(P)
        IN \A k \in DOMAIN O :
              /\ O[k].reads[2] = OwnPad(O[k].position[1], O[k].position[2])
              /\ O[k].position[1] = "sticker" =>
                    \E n \in DOMAIN P : /\ P[n].out = O[k].reads[2]
                                        /\ P[n].reads = <<InputPad(1 + O[k].position[2])>>

\* The pad of the statement that overlays the main content onto the canvas.
BaseCompositePad(program) ==
    LET n == CHOOSE n \in DOMAIN program :
                 program[n].op = "overlay" /\ program[n].position = <<"content">>
    IN  program[n].out

\* C25: the layer overlays form one chain: the first reads the base composite pad,
\* each later one reads the output pad of the previous overlay, there is one
\* overlay step per layer, and the last overlay's pad (the base composite pad when
\* there are no layers) is the declared output of a still; for video one
\* frame-rate statement reading that pad ends the program and its pad is the
\* declared output.
C25_OverlayChain ==
    scene.invoked =>
        LET P == scene.program
            O == LayerOverlaySteps(P)
            lastPad == IF O = <<>> THEN BaseCompositePad(P) ELSE O[Len(O)].out
            fps == {n \in DOMAIN P : P[n].op = "fps"}
        IN /\ Len(O) = Len(scene.stickers) + Len(scene.textOverlays)
           /\ \A k \in DOMAIN O :
                 O[k].reads[1] = IF k = 1 THEN BaseCompositePad(P) ELSE O[k - 1].out
           /\ IF scene.impl \in {"VideoProcessor", "processVideo"}
              THEN /\ fps = {Len(P)}
                   /\ P[Len(P)].reads = <<lastPad>>
                   /\ scene.map = P[Len(P)].out
              ELSE /\ fps = {}
                   /\ scene.map = lastPad

\* A video scene of three layers: three chained overlays, then the frame-rate lock.
C25_Witness ==
    /\ scene.invoked
    /\ scene.impl = "VideoProcessor"
    /\ Len(LayerOverlaySteps(scene.program)) = 3
    /\ scene.program[Len(scene.program)].op = "fps"

\* What the request gives for the main content.
CropGiven == base.request.content.crop.width # undefined
             /\ base.request.content.crop.height # undefined
RotationGiven == base.request.content.rotation # Num(0)
SizeGiven == base.request.content.size.width # undefined
             /\ base.request.content.size.height # undefined
FilterGiven == /\ base.request.filters.ffmpeg.given
               /\ \E i \in DOMAIN base.request.filters.ffmpeg.chars :
                     base.request.filters.ffmpeg.chars[i] # " "

TierAsStated(quality) ==
    IF quality.k >= 90 * Scale THEN [crf |-> 18, cq |-> 19]
    ELSE IF quality.k >= 80 * Scale THEN [crf |-> 20, cq |-> 21]
    ELSE [crf |-> 23, cq |-> 24]

QualityGiven == fmt.fn \in EncoderImpls /\ isFinite(fmt.args[1])

C27_QualityTiers ==
    /\ [](QualityGiven => fmt.result = TierAsStated(fmt.args[1]))
    /\ [][(QualityGiven /\ QualityGiven' /\ fmt'.args[1].k <= fmt.args[1].k)
            => (fmt'.result.crf >= fmt.result.crf /\ fmt'.result.cq >= fmt.result.cq)]_vars

\* The worker's run at quality 80, where the middle tier starts.
C27_Witness ==
    /\ fmt.fn = "processVideo"
    /\ fmt.args[1] = Num(80 * Scale)
    /\ fmt.result = [crf |-> 20, cq |-> 21]

\* The text box's width in whole pixels: the requested width as toPixels resolves
\* it, rounded, at least 1.
BoxPixels(width, canvas) ==
    LET px == MathRound(toPixels(width, Num(canvas.width * Scale))).k \div Scale
    IN  IF px < 1 THEN 1 ELSE px

FontSizeAsStated(boxWidth, canvasHeight) ==
    LET byWidth == (24 * boxWidth) \div 400
        byHeight == (24 * canvasHeight) \div 200
        scaled == IF byWidth <= byHeight THEN byWidth ELSE byHeight
    IN  IF scaled < 8 THEN 8 ELSE scaled

FontSizeCalled == fmt.fn = "calculateFontSize"

\* C28: the font size of a text overlay is max(8, floor(24 * min(boxWidth/400,
\* canvasHeight/200))) for its box width in pixels: a whole number >= 8, 24 for a
\* box of 400 pixels, and of two overlays on the same canvas the one with the
\* wider box never has the smaller font.
C28_FontSize ==
    /\ [](FontSizeCalled =>
            /\ isFinite(fmt.result)
            /\ fmt.result.k % Scale = 0
            /\ fmt.result.k >= 8 * Scale
            /\ fmt.result.k =
                  Scale * FontSizeAsStated(BoxPixels(fmt.args[2], fmt.args[3]),
                                           fmt.args[3].height)
            /\ BoxPixels(fmt.args[2], fmt.args[3]) = 400 => fmt.result = Num(24 * Scale))
    /\ [][(/\ FontSizeCalled /\ FontSizeCalled'
           /\ fmt'.args[3] = fmt.args[3]
           /\ BoxPixels(fmt.args[2], fmt.args[3]) <= BoxPixels(fmt'.args[2], fmt'.args[3]))
            => fmt.result.k <= fmt'.result.k]_vars

\* A box of 400 pixels in the worker: font size 24.
C28_Witness ==
    /\ FontSizeCalled
    /\ fmt.args[1] = "processVideo"
    /\ fmt.args[2] = Num(400 * Scale)
    /\ fmt.result = Num(24 * Scale)

\* C29: the detach handling is idempotent: run a second time for the same
\* connection it leaves the job table and the job objects (their state and their
\* listeners) as the first run left them, also when the first run, or an earlier
\* one, freed the job record.
C29_DetachIdempotent ==
    \A c \in ConnIds :
        conns[c].status = "open" =>
            LET first == detachFrom(jobState, jobs, c)
                second == detachFrom(first.jobState, first.jobs, c)
            IN  second = first

\* Both handlers ran for a connection, 'error' before 'close', and the record of
\* its job is freed.
C29_Witness ==
    \E c \in ConnIds :
        /\ conns[c].errored
        /\ conns[c].closed
        /\ conns[c].jobId \notin jobState

\* The events job j emitted while request c was attached: from its attach to its
\* detach handling, or to now.
EmittedWhileAttached(c) ==
    LET j == conns[c].jobId
        upto == IF conns[c].closed \/ conns[c].errored THEN conns[c].detachedAt
                ELSE Len(events[j])
    IN  SubSeq(events[j], conns[c].attachedAt + 1, upto)

\* The progress-type events written to request c, as the events they carry.
ProgressSent(c) ==
    LET P == SelectSeq(conns[c].sent, LAMBDA e : e.type = "progress")
    IN  [i \in DOMAIN P |-> [phase |-> P[i].phase, message |-> P[i].message]]

\* C30: an accepted observer is sent one connected-type event first and then, as
\* progress-type events, exactly the events its job emits while it is attached,
\* each once and in emission order; no event emitted before it attached is
\* replayed to it.
C30_ExactlyEventsWhileAttached ==
    \A c \in ConnIds :
        conns[c].status = "open" =>
            /\ conns[c].sent # <<>>
            /\ TypeIndexes(conns[c].sent, "connected") = {1}
            /\ ProgressSent(c) = EmittedWhileAttached(c)

====
